---- MODULE Spec2Model ----
(***************************************************************************)
(* A model of the LV2 plugin descriptor extraction of jack-audio-tools     *)
(* (src/lv2/plugin_info.py): the per-port range and scale point            *)
(* normalisation, short name and unit of _get_port_info, the port loop of *)
(* _get_plugin_ports, the presets, properties, version and diagnostics of  *)
(* _get_plugin_info, the bulk run of get_plugins_info and the diagnostics  *)
(* lists of the shared context object.                                     *)
(*                                                                         *)
(* Numbers.  A lilv value node is modelled as a record [rep, v]: rep is    *)
(* the literal's representation ("int" or "float", what Node.is_int()      *)
(* tells) and v its value in TENTHS, so that the float step 0.1 of the     *)
(* source is the integer 1 and the integer step 1 is 10.  A fact that is   *)
(* not declared (Python None) is the node None.  Values stay far below the *)
(* magnitude at which a double would absorb the 0.1 step.                  *)
(***************************************************************************)
EXTENDS Integers, Sequences, FiniteSets, TLC

VARIABLES
    pc,        \* position of the run
    port,      \* the facts of the port being normalised (pure-function specs)
    res,       \* result of _get_port_info on port
    res2,      \* result of _get_port_info on the re-declared result
    ctx,       \* the shared context object: errors, warnings, portnames, portsymbols
    declared,  \* the port facts of the current plugin, in index order
    ports,     \* the port descriptors appended so far by _get_plugin_ports
    plugin,    \* the facts of the plugin being described (single plugin run)
    pinfo,     \* result of _get_plugin_info on plugin
    plugins,   \* the plugins the bulk run has come to, in order
    infos,     \* the descriptors the bulk run has collected
    \* JackMidiToTransport (src/transport)
    device,           \* self.device
    backend,          \* "jack" (midi_to_transport.py) or "rtmidi" (rtmidi_to_transport.py)
    transport_state,  \* the JACK transport state the client reads
    transport_frame,  \* the JACK transport frame
    transport_cmd,    \* start/stop request the server has not applied yet
    locate,           \* TRUE when a relocation to frame 0 is requested and not applied yet
    incoming,         \* MIDI events of the current cycle not iterated yet (jack backend)
    data,             \* the MIDI message handled last
    t_state,          \* the local t_state of process for that message
    calls,            \* what process did for that message
    \* JackMonitor (src/jackdbus)
    args,         \* self.args
    jackctl,      \* self.jackctl: 0 is None, n an interface to the n-th incarnation of the service
    jack_status,  \* self.jack_status, a dict
    timeouts,     \* the periodic GLib timeouts that are active, per callback
    mainloop,     \* "running" or "quit"
    outbox,       \* D-Bus method calls sent and not yet answered, in order
    inbox,        \* D-Bus replies, errors and signals not yet dispatched, in order
    launched,     \* start/stop arguments of the last two commands launched
    stats_env,    \* the IS_STARTED entry of the status passed to the last "status" command
    service,      \* the JACK D-Bus service: whether it is up, whether the server runs
    \* URIDMapper (src/lv2/apply_midi.py)
    next_id,   \* self._next_id
    map,       \* self._map
    rmap,      \* self._rmap
    lock,      \* self._lock: 0 when free, else the thread holding it
    thread,    \* per thread: position in uri_to_id, its uri and its urid
    results    \* the (uri, id) pairs uri_to_id has returned

\* the variables of the plugin descriptor extraction
extractorVars == <<pc, port, res, res2, ctx, declared, ports, plugin, pinfo, plugins, infos>>

\* the variables of the plugin level runs
pluginVars == <<plugin, pinfo, plugins, infos>>

\* the JACK transport, as the MIDI transport client sees and requests it
serverVars == <<transport_state, transport_frame, transport_cmd, locate>>

\* the variables of the MIDI transport client
transportVars == <<device, backend, serverVars, incoming, data, t_state, calls>>

\* the variables of the JACK D-Bus monitor
monitorVars == <<args, jackctl, jack_status, timeouts, mainloop, outbox, inbox,
                 launched, stats_env, service>>

\* the variables of the URID mapper
mapperVars == <<next_id, map, rmap, lock, thread, results>>

\* the variables of the programs other than the descriptor extraction
toolVars == <<transportVars, monitorVars, mapperVars>>

vars == <<extractorVars, toolVars>>

----------------------------------------------------------------------------
(* Bounds of the model *)

MaxInt == 2       \* integer literals range over -MaxInt..MaxInt
MaxHalf == 3      \* float literals range over -MaxHalf/2 .. MaxHalf/2 in steps of 0.5
MaxPoints == 2    \* declared scale points per port
MaxPorts == 3     \* ports per plugin
MaxVersion == 4   \* declared minor and micro versions range over 0..MaxVersion
MaxPresets == 3   \* presets related to a plugin
MaxPluginPorts == 2  \* ports of a plugin described in one call
MaxPlugins == 3   \* plugins of a bulk run
MaxFrame == 2     \* the transport frame counts up to MaxFrame
MaxEvents == 2    \* MIDI events delivered in one JACK cycle
MaxCmd == 14      \* MMC command bytes range over 0..MaxCmd
MaxTimeouts == 2  \* periodic timeouts per callback that the monitor may have
MaxQueue == 2     \* D-Bus replies, errors and signals waiting to be dispatched
MaxOutbox == 6    \* D-Bus method calls waiting to be answered
MaxInstances == 2 \* incarnations of the JACK D-Bus service
MaxThreads == 2   \* threads calling the URID mapper
MaxCalls == 3     \* calls of uri_to_id over the life of the mapper

(* Program constants *)

SampleRate == 48000
MaxShortName == 16
NoVersion == -1     \* stands for a version fact that is not declared

\* src/transport/midi_to_transport.py and rtmidi_to_transport.py
MIDI_SYSEX == 240
MIDI_START == 250
MIDI_CONTINUE == 251
MIDI_STOP == 252
MMC_STOP == 1
MMC_PLAY == 2
MMC_DEFERRED_PLAY == 3
MMC_REWIND == 5
MMC_PAUSE == 9
MMC_RESET == 13
AllDevices == 127      \* 0x7F, the default device number
MmcSubId == 6          \* the sub-id byte of an MMC command message
SysExLen == 6          \* the length of the messages taken as MMC commands

\* src/jackdbus/jackmonitor.py
INTERVAL_STATS == 0
INTERVAL_RECONNECT == 1000
NoStatus == -1         \* what jack_status.get(name) gives for a missing key (None)

----------------------------------------------------------------------------
(* The programs that are not running in a specification *)

TransportIdle ==
    /\ device = AllDevices
    /\ backend = "jack"
    /\ transport_state = "STOPPED"
    /\ transport_frame = 0
    /\ transport_cmd = "none"
    /\ locate = FALSE
    /\ incoming = 0
    /\ data = <<>>
    /\ t_state = ""
    /\ calls = {}

NoArgs == [command |-> FALSE, skip_initial |-> FALSE,
           interval_stats |-> INTERVAL_STATS, interval_reconnect |-> INTERVAL_RECONNECT]

NoTimeouts == [get_jack_stats |-> 0, run_stats_command |-> 0, dbus_connect |-> 0]

\* The keys of self.jack_status: the names the calls of JackCtlInterface pass
\* to their callback
StatusNames ==
    {"is_started", "is_realtime", "samplerate", "period", "load", "xruns", "latency"}

\* self.jack_status = {}: a key that is missing reads as None
NoJackStatus == [n \in StatusNames |-> NoStatus]

MonitorIdle ==
    /\ args = NoArgs
    /\ jackctl = 0
    /\ jack_status = NoJackStatus
    /\ timeouts = NoTimeouts
    /\ mainloop = "idle"
    /\ outbox = <<>>
    /\ inbox = <<>>
    /\ launched = <<>>
    /\ stats_env = NoStatus
    /\ service = [up |-> FALSE, started |-> FALSE, instance |-> 0, watched |-> FALSE]

Threads == 1..MaxThreads

\* the URIs the mapper is asked for
URIs == {"urn:a", "urn:b"}

\* no id: the URI is not a key of _map
NoId == 0

\* no URI: the id is not a key of _rmap
NoUri == ""

\* the ids the mapper can hand out in MaxCalls calls
Ids == 1..MaxCalls

IdleThread == [pc |-> "idle", uri |-> NoUri, urid |-> NoId]

\* URIDMapper.__init__: _next_id = 1, empty dictionaries, a free lock
MapperIdle ==
    /\ next_id = 1
    /\ map = [u \in URIs |-> NoId]
    /\ rmap = [i \in Ids |-> NoUri]
    /\ lock = 0
    /\ thread = [t \in Threads |-> IdleThread]
    /\ results = <<>>

ToolsIdle == TransportIdle /\ MonitorIdle /\ MapperIdle

----------------------------------------------------------------------------
(* Value nodes *)

None == [rep |-> "none", v |-> 0]
IntNode(n) == [rep |-> "int", v |-> 10 * n]
FloatNode(t) == [rep |-> "float", v |-> t]

NoStr == "<None>"      \* Python None where a string is expected

\* int(x) of a float: truncation toward zero (x in tenths)
\* (mutant: rounding down)
TruncFloor(t) == (t \div 10) * 10
Trunc(t) == IF t >= 0 THEN (t \div 10) * 10 ELSE -(((-t) \div 10) * 10)

\* fmod(x, 1.0) == 0.0
ZeroDecimals(t) == t % 10 = 0

\* One diagnostic message.  kind names the format string, port / what / label
\* / nums are the values formatted into it.
Msg(kind, portname, what, label, nums) ==
    [kind |-> kind, port |-> portname, what |-> what, label |-> label, nums |-> nums]

\* The coercion of one declared value to the port's numeric domain, with the
\* diagnostics it appends.  what is "minimum", "maximum", "default" or
\* "scalepoint"; label is the scale point's label ("" otherwise).
Coerce(is_int, x, what, label, portname) ==
    IF is_int
    THEN IF x.rep = "int"
         THEN [value |-> x.v, errors |-> <<>>, warnings |-> <<>>]
         ELSE IF ZeroDecimals(x.v)
              THEN [value |-> Trunc(x.v), errors |-> <<>>,
                    warnings |-> <<Msg("integer property but value is float", portname, what, label, <<>>)>>]
              ELSE [value |-> Trunc(x.v),
                    errors |-> <<Msg("integer property but value has non-zero decimals", portname, what, label, <<>>)>>,
                    warnings |-> <<>>]
    ELSE IF x.rep = "int"
         THEN [value |-> x.v, errors |-> <<>>,
               warnings |-> <<Msg("value is an integer", portname, what, label, <<>>)>>]
         ELSE [value |-> x.v, errors |-> <<>>, warnings |-> <<>>]

----------------------------------------------------------------------------
(* Range normalisation: plugin_info.py lines 196-291 *)

\* ranges['minimum'] >= ranges['maximum']
\* (mutant: equal bounds pass unrepaired)
MinNotBelowMaxStrict(minimum, maximum) == minimum > maximum
MinNotBelowMax(minimum, maximum) == minimum >= maximum

\* ranges['maximum'] = ranges['minimum'] + (1 if is_int else 0.1)
\* (mutant: the step is added to the declared maximum)
FixMaximumFromMax(minimum, maximum, is_int) == maximum + (IF is_int THEN 10 ELSE 1)
FixMaximum(minimum, maximum, is_int) == minimum + (IF is_int THEN 10 ELSE 1)

\* testmin, testmax: the bounds the default is checked against
TestBound(bound, properties) ==
    IF "sampleRate" \in properties THEN bound * SampleRate ELSE bound

\* not (testmin <= ranges['default'] <= testmax)
\* (mutant: only the upper bound is tested)
DefaultOutOfBoundsUpperOnly(testmin, default, testmax) == ~(default <= testmax)
DefaultOutOfBounds(testmin, default, testmax) ==
    ~(testmin <= default /\ default <= testmax)

\* the ranges synthesized when minimum or maximum is not declared
SynthRanges(is_int, types) ==
    IF is_int
    THEN [minimum |-> 0, maximum |-> 10, default |-> 0]
    ELSE [minimum |-> IF "CV" \in types THEN -10 ELSE 0, maximum |-> 10, default |-> 0]

\* "CV" not in types and designation != str(world.ns.lv2.latency)
\* (mutant: no exemption)
MissingRangesIsErrorAlways(types, designation) == TRUE
MissingRangesIsError(types, designation) ==
    "CV" \notin types /\ designation # "latency"

\* if "Input" in types: the missing default is an error
\* (mutant: for every port)
MissingDefaultIsErrorAlways(types) == TRUE
MissingDefaultIsError(types) == "Input" \in types

\* The whole range block; returns the ranges and the diagnostics appended.
GetRanges(p, portname, is_int) ==
    IF p.minimum # None /\ p.maximum # None
    THEN LET cmin == Coerce(is_int, p.minimum, "minimum", "", portname)
             cmax == Coerce(is_int, p.maximum, "maximum", "", portname)
             minimum == cmin.value
             bad == MinNotBelowMax(minimum, cmax.value)
             maximum == IF bad THEN FixMaximum(minimum, cmax.value, is_int) ELSE cmax.value
             e1 == cmin.errors \o cmax.errors \o
                   (IF bad THEN <<Msg("minimum value is equal or higher than its maximum",
                                      portname, "", "", <<>>)>>
                           ELSE <<>>)
             w1 == cmin.warnings \o cmax.warnings
         IN  IF p.default # None
             THEN LET cdef == Coerce(is_int, p.default, "default", "", portname)
                      oob == DefaultOutOfBounds(TestBound(minimum, p.properties),
                                                cdef.value,
                                                TestBound(maximum, p.properties))
                  IN  [ranges |-> [minimum |-> minimum, maximum |-> maximum,
                                   default |-> IF oob THEN minimum ELSE cdef.value],
                       errors |-> e1 \o cdef.errors \o
                                  (IF oob THEN <<Msg("default value is out of bounds",
                                                     portname, "", "", <<>>)>>
                                          ELSE <<>>),
                       warnings |-> w1 \o cdef.warnings]
             ELSE [ranges |-> [minimum |-> minimum, maximum |-> maximum, default |-> minimum],
                   errors |-> e1 \o
                              (IF MissingDefaultIsError(p.types)
                               THEN <<Msg("is missing default value", portname, "", "", <<>>)>>
                               ELSE <<>>),
                   warnings |-> w1]
    ELSE [ranges |-> SynthRanges(is_int, p.types),
          errors |-> IF MissingRangesIsError(p.types, p.designation)
                     THEN <<Msg("is missing value ranges", portname, "", "", <<>>)>>
                     ELSE <<>>,
          warnings |-> <<>>]

----------------------------------------------------------------------------
(* Scale points: plugin_info.py lines 293-341 *)

\* ranges['minimum'] <= value <= ranges['maximum']
ScalePointInBounds(minimum, value, maximum) == minimum <= value /\ value <= maximum

\* What one declared scale point contributes in the loop of lines 298-331.
ScalePointStep(sp, ranges, is_int, portname) ==
    IF sp.label = NoStr
    THEN [unsorted |-> <<>>, warnings |-> <<>>,
          errors |-> <<Msg("a port scalepoint is missing its label", "", "", "", <<>>)>>]
    ELSE IF sp.value = None
    THEN [unsorted |-> <<>>, warnings |-> <<>>,
          errors |-> <<Msg("port scalepoint is missing its value", "", "", sp.label, <<>>)>>]
    ELSE LET c == Coerce(is_int, sp.value, "scalepoint", sp.label, portname)
         IN  IF ScalePointInBounds(ranges.minimum, c.value, ranges.maximum)
             THEN [unsorted |-> <<[value |-> c.value, label |-> sp.label]>>,
                   warnings |-> c.warnings, errors |-> c.errors]
             ELSE [unsorted |-> <<>>, warnings |-> c.warnings,
                   errors |-> c.errors \o
                      <<Msg("port scalepoint has an out-of-bounds value", "",
                            IF is_int THEN "%d" ELSE "%f", sp.label,
                            <<ranges.minimum, c.value, ranges.maximum>>)>>]

\* The loop over the declared scale points, in declaration order.
RECURSIVE ScanScalePoints(_, _, _, _)
ScanScalePoints(sps, ranges, is_int, portname) ==
    IF sps = <<>>
    THEN [unsorted |-> <<>>, warnings |-> <<>>, errors |-> <<>>]
    ELSE LET this == ScalePointStep(Head(sps), ranges, is_int, portname)
             rest == ScanScalePoints(Tail(sps), ranges, is_int, portname)
         IN  [unsorted |-> this.unsorted \o rest.unsorted,
              warnings |-> this.warnings \o rest.warnings,
              errors |-> this.errors \o rest.errors]

\* unsorted = dict(s for s in scalepoints_unsorted); unsorted[v]: the label of
\* the last pair carrying the value v
LabelOf(unsorted, v) ==
    LET last == CHOOSE i \in 1..Len(unsorted) :
                    /\ unsorted[i].value = v
                    /\ \A j \in (i+1)..Len(unsorted) : unsorted[j].value # v
    IN  unsorted[last].label

\* values = list(s[0] for s in scalepoints_unsorted); values.sort()
SortedValues(unsorted) ==
    SortSeq([i \in 1..Len(unsorted) |-> unsorted[i].value], LAMBDA a, b : a < b)

\* Lines 333-337.  An entry of the returned list is [label, value], value a
\* node in the port's numeric domain.  When no declared point survived, the
\* variable scalepoints still holds what port.get_scale_points() returned:
\* the declared points themselves.
FinalScalePoints(sps, unsorted, is_int) ==
    IF unsorted # <<>>
    THEN LET values == SortedValues(unsorted)
         IN  [i \in 1..Len(values) |->
                 [label |-> LabelOf(unsorted, values[i]),
                  value |-> [rep |-> IF is_int THEN "int" ELSE "float", v |-> values[i]]]]
    ELSE sps

\* "enumeration" in properties and len(scalepoints) <= 1
NotEnoughValues(properties, scalepoints) ==
    "enumeration" \in properties /\ Len(scalepoints) <= 1

----------------------------------------------------------------------------
(* Short name: plugin_info.py lines 159-169 *)

\* a Python string is truthy unless it is None or empty
Truthy(s) == s # NoStr /\ s # ""

\* portname[:16]
Prefix16(s) == IF Len(s) <= MaxShortName THEN s ELSE SubSeq(s, 1, MaxShortName)

\* psname = getfirst(port, shortName); if psname is None: psname = portname[:16]
ShortNameOf(p, portname) ==
    IF p.shortName = NoStr THEN Prefix16(portname) ELSE p.shortName

\* the errors of lines 164-169, in the order they are appended
ShortNameErrors(p, portname) ==
    (IF p.shortName # NoStr /\ Len(p.shortName) > MaxShortName
     THEN <<Msg("short name has more than 16 characters", portname, "", "", <<>>)>>
     ELSE <<>>)
    \o
    (IF p.oldShortname
     THEN <<Msg("short name is using old style 'shortname' instead of 'shortName'",
                portname, "", "", <<>>)>>
     ELSE <<>>)

----------------------------------------------------------------------------
(* Units: plugin_info.py lines 57-82 and 343-388 *)

\* suffix :> <<label, render, symbol>>
LV2_UNITS ==
    [u \in {"bar", "beat", "bpm", "cent", "cm", "coef", "db", "degree", "frame",
            "hz", "inch", "khz", "km", "mhz", "midiNote", "mile", "min", "m",
            "mm", "ms", "oct", "pc", "semitone12TET", "s"} |->
       CASE u = "bar" -> <<"bars", "%f bars", "bars">>
         [] u = "beat" -> <<"beats", "%f beats", "beats">>
         [] u = "bpm" -> <<"beats per minute", "%f BPM", "BPM">>
         [] u = "cent" -> <<"cents", "%f ct", "ct">>
         [] u = "cm" -> <<"centimetres", "%f cm", "cm">>
         [] u = "coef" -> <<"coefficient", "* %f", "*">>
         [] u = "db" -> <<"decibels", "%f dB", "dB">>
         [] u = "degree" -> <<"degrees", "%f deg", "deg">>
         [] u = "frame" -> <<"audio frames", "%f frames", "frames">>
         [] u = "hz" -> <<"hertz", "%f Hz", "Hz">>
         [] u = "inch" -> <<"inches", "%f\"", "in">>
         [] u = "khz" -> <<"kilohertz", "%f kHz", "kHz">>
         [] u = "km" -> <<"kilometres", "%f km", "km">>
         [] u = "mhz" -> <<"megahertz", "%f MHz", "MHz">>
         [] u = "midiNote" -> <<"MIDI note", "MIDI note %d", "note">>
         [] u = "mile" -> <<"miles", "%f mi", "mi">>
         [] u = "min" -> <<"minutes", "%f mins", "min">>
         [] u = "m" -> <<"metres", "%f m", "m">>
         [] u = "mm" -> <<"millimetres", "%f mm", "mm">>
         [] u = "ms" -> <<"milliseconds", "%f ms", "ms">>
         [] u = "oct" -> <<"octaves", "%f octaves", "oct">>
         [] u = "pc" -> <<"percent", "%f%%", "%">>
         [] u = "semitone12TET" -> <<"semitones", "%f semi", "semi">>
         [] u = "s" -> <<"seconds", "%f s", "s">>]

\* units = {}
NoUnits == [attached |-> FALSE, label |-> NoStr, render |-> NoStr, symbol |-> NoStr]

\* a port declaring no units:unit fact
NoUnit == [kind |-> "none", suffix |-> "", label |-> NoStr, render |-> NoStr, symbol |-> NoStr]

\* if ulabel and urender and usymbol: units = {...}
AttachUnits(ulabel, urender, usymbol) ==
    IF Truthy(ulabel) /\ Truthy(urender) /\ Truthy(usymbol)
    THEN [attached |-> TRUE, label |-> ulabel, render |-> urender, symbol |-> usymbol]
    ELSE NoUnits

\* if xlabel: ulabel = str(xlabel[0]) else: errors.append(...)   (one of the
\* three custom unit facts; which is "label", "render" or "symbol")
CustomUnitError(fact, which, portname) ==
    IF fact # NoStr
    THEN <<>>
    ELSE <<Msg("has custom unit with no " \o which, portname, "", "", <<>>)>>

\* The unit block of a Control port.  u.kind is "none" (no units:unit fact),
\* "lv2" (a URI in the units namespace, u.suffix what follows the '#') or
\* "custom" (label, render and symbol are the facts found for the unit's
\* URI, NoStr where there is none).
UnitBlock(p, portname) ==
    IF p.unit.kind = "none"
    THEN [units |-> NoUnits, errors |-> <<>>]
    ELSE IF p.unit.kind = "lv2"
    THEN IF p.unit.suffix \notin DOMAIN LV2_UNITS
         THEN [units |-> NoUnits,
               errors |-> <<Msg("has invalid lv2 unit", portname, "", p.unit.suffix, <<>>)>>]
         ELSE [units |-> AttachUnits(LV2_UNITS[p.unit.suffix][1],
                                     LV2_UNITS[p.unit.suffix][2],
                                     LV2_UNITS[p.unit.suffix][3]),
               errors |-> <<>>]
    ELSE [units |-> AttachUnits(p.unit.label, p.unit.render, p.unit.symbol),
          errors |-> CustomUnitError(p.unit.label, "label", portname) \o
                     CustomUnitError(p.unit.render, "render", portname) \o
                     CustomUnitError(p.unit.symbol, "symbol", portname)]

----------------------------------------------------------------------------
(* _get_port_info: plugin_info.py lines 123-401 *)

NoRanges == [minimum |-> 0, maximum |-> 0, default |-> 0]

NoInfo == [name |-> NoStr, symbol |-> NoStr, hasRanges |-> FALSE, ranges |-> NoRanges,
           properties |-> {}, scalePoints |-> <<>>, shortName |-> NoStr, units |-> NoUnits]

\* portname in portsymbols  (line 148: the set tested is portsymbols)
NameSeen(c, portname) == portname \in c.portsymbols

\* portsymbol in portsymbols  (line 154)
SymbolSeen(c, portsymbol) == portsymbol \in c.portsymbols

\* The ranges / scale points / enumeration block of a Control or CV port.
ControlBlock(p, portname) ==
    LET is_int == "integer" \in p.properties
        e0 == IF is_int /\ "CV" \in p.types
              THEN <<Msg("has integer property and CV type", portname, "", "", <<>>)>>
              ELSE <<>>
        r  == GetRanges(p, portname, is_int)
        s  == ScanScalePoints(p.scalePoints, r.ranges, is_int, portname)
        scalepoints == FinalScalePoints(p.scalePoints, s.unsorted, is_int)
        few == NotEnoughValues(p.properties, scalepoints)
    IN  [ranges |-> r.ranges,
         scalePoints |-> scalepoints,
         properties |-> IF few THEN p.properties \ {"enumeration"} ELSE p.properties,
         errors |-> e0 \o r.errors \o s.errors \o
                    (IF few THEN <<Msg("wants to use enumeration but doesn't have enough values",
                                       portname, "", "", <<>>)>>
                            ELSE <<>>),
         warnings |-> r.warnings \o s.warnings]

\* _get_port_info(ctx, port).  The name `index` used at lines 134 and 142 is
\* bound nowhere in the function or the module: formatting the synthesized
\* name raises NameError before anything is appended.
GetPortInfo(c, p) ==
    IF p.name = NoStr \/ p.symbol = NoStr
    THEN [raised |-> "NameError", ctx |-> c, types |-> p.types, info |-> NoInfo]
    ELSE LET dupname == NameSeen(c, p.name)
             dupsym  == SymbolSeen(c, p.symbol)
             c1 == [c EXCEPT
                      !.warnings = IF dupname
                                   THEN Append(@, Msg("port name is not unique", p.name, "", "", <<>>))
                                   ELSE @,
                      !.portnames = IF dupname THEN @ ELSE @ \cup {p.name},
                      !.errors = IF dupsym
                                 THEN Append(@, Msg("port symbol is not unique", p.symbol, "", "", <<>>))
                                 ELSE @,
                      !.portsymbols = IF dupsym THEN @ ELSE @ \cup {p.symbol}]
             c2 == [c1 EXCEPT !.errors = @ \o ShortNameErrors(p, p.name)]
             control == "Control" \in p.types \/ "CV" \in p.types
             b == ControlBlock(p, p.name)
             u == IF "Control" \in p.types
                  THEN UnitBlock(p, p.name)
                  ELSE [units |-> NoUnits, errors |-> <<>>]
         IN  IF control
             THEN [raised |-> "", types |-> p.types,
                   ctx |-> [c2 EXCEPT !.errors = @ \o b.errors \o u.errors,
                                      !.warnings = @ \o b.warnings],
                   info |-> [name |-> p.name, symbol |-> p.symbol, hasRanges |-> TRUE,
                             ranges |-> b.ranges, properties |-> b.properties,
                             scalePoints |-> b.scalePoints,
                             shortName |-> ShortNameOf(p, p.name), units |-> u.units]]
             ELSE [raised |-> "", types |-> p.types, ctx |-> c2,
                   info |-> [name |-> p.name, symbol |-> p.symbol, hasRanges |-> FALSE,
                             ranges |-> NoRanges, properties |-> p.properties,
                             scalePoints |-> <<>>,
                             shortName |-> ShortNameOf(p, p.name), units |-> NoUnits]]

----------------------------------------------------------------------------
(* _get_plugin_ports: plugin_info.py lines 404-437, one loop iteration *)

\* is_input = "Input" in types; types.remove("Input" if is_input else "Output")
\* list.remove raises ValueError when the marker is not in the list.
RemoveDirectionRaises(types) == "Input" \notin types /\ "Output" \notin types

\* the descriptor appended for port i under its direction: the one marker
\* removed at line 430 is not a class, every other type is
PortEntry(i, types, info) ==
    [index |-> i,
     direction |-> IF "Input" \in types THEN "input" ELSE "output",
     classes |-> types \ {IF "Input" \in types THEN "Input" ELSE "Output"},
     info |-> info]

\* ports[typ][direction]: the descriptors appended to one list, in order
PortList(entries, typ, direction) ==
    SelectSeq(entries, LAMBDA e : typ \in e.classes /\ e.direction = direction)

----------------------------------------------------------------------------
(* Strings: Python's str comparison and the message formats *)

\* The printable ASCII characters in code point order (the backquote, which
\* no string of the model contains, is left out)
Alphabet ==
    "\n !\"#$%&'()*+,-./0123456789:;<=>?@ABCDEFGHIJKLMNOPQRSTUVWXYZ[\\]^_abcdefghijklmnopqrstuvwxyz{|}~"

CharAt(s, i) == SubSeq(s, i, i)

\* position of a character in the code point order
CharCode(ch) == CHOOSE i \in 1..Len(Alphabet) : CharAt(Alphabet, i) = ch

\* s < t for Python strings, decided from position i on
RECURSIVE StrLessFrom(_, _, _)
StrLessFrom(s, t, i) ==
    IF i > Len(t) THEN FALSE
    ELSE IF i > Len(s) THEN TRUE
    ELSE IF CharAt(s, i) = CharAt(t, i) THEN StrLessFrom(s, t, i + 1)
    ELSE CharCode(CharAt(s, i)) < CharCode(CharAt(t, i))

StrLess(s, t) == StrLessFrom(s, t, 1)

\* s.startswith(prefix)
StartsWith(s, prefix) ==
    Len(s) >= Len(prefix) /\ SubSeq(s, 1, Len(prefix)) = prefix

\* "%d" % x for a whole number x given in tenths
FormatInt(t) == ToString(t \div 10)

\* "%f" % x for x given in tenths
FormatFloat(t) ==
    IF t < 0
    THEN "-" \o ToString((-t) \div 10) \o "." \o ToString((-t) % 10) \o "00000"
    ELSE ToString(t \div 10) \o "." \o ToString(t % 10) \o "00000"

FormatNum(what, t) == IF what = "%d" THEN FormatInt(t) ELSE FormatFloat(t)

\* The text of a diagnostic: its format string applied to its values
Format(m) ==
    CASE m.kind \in {"integer property but value is float",
                     "integer property but value has non-zero decimals"} ->
            "port '" \o m.port \o "' has integer property but " \o
            (IF m.what = "scalepoint" THEN "scalepoint '" \o m.label \o "'" ELSE m.what) \o
            (IF m.kind = "integer property but value is float"
             THEN " value is float" ELSE " value has non-zero decimals")
      [] m.kind = "value is an integer" ->
            "port '" \o m.port \o "' " \o
            (IF m.what = "scalepoint" THEN "scalepoint '" \o m.label \o "'" ELSE m.what) \o
            " value is an integer"
      [] m.kind = "a port scalepoint is missing its label" -> m.kind
      [] m.kind = "port scalepoint is missing its value" ->
            "port scalepoint '" \o m.label \o "' is missing its value"
      [] m.kind = "port scalepoint has an out-of-bounds value" ->
            "port scalepoint '" \o m.label \o "' has an out-of-bounds value:\n" \o
            FormatNum(m.what, m.nums[1]) \o " < " \o FormatNum(m.what, m.nums[2]) \o
            " < " \o FormatNum(m.what, m.nums[3])
      [] m.kind = "has invalid lv2 unit" ->
            "port '" \o m.port \o "' has invalid lv2 unit '" \o m.label \o "'"
      [] m.kind = "port name is not unique" ->
            "port name '" \o m.port \o "' is not unique"
      [] m.kind = "port symbol is not unique" ->
            "port symbol '" \o m.port \o "' is not unique"
      [] m.kind = "Preset has no rdfs:label" ->
            "Preset '" \o m.label \o "' has no rdfs:label"
      [] m.kind = "Could not find defintion of property" ->
            "Could not find defintion of property '" \o m.label \o "'."
      [] StartsWith(m.kind, "plugin ") -> m.kind
      [] OTHER -> "port '" \o m.port \o "' " \o m.kind

\* sorted(items, key=...): keys[i] is the string key of items[i]; Python's
\* sort is stable, items of equal key keep their order
SortedByKey(items, keys) ==
    LET n == Len(items)
        before(i) == {j \in 1..n : \/ StrLess(keys[j], keys[i])
                                   \/ (~StrLess(keys[i], keys[j]) /\ j < i)}
    IN  [k \in 1..n |-> items[CHOOSE i \in 1..n : Cardinality(before(i)) = k - 1]]

\* the texts of a list of diagnostics
Texts(msgs) == [i \in 1..Len(msgs) |-> Format(msgs[i])]

\* sorted(errors): the texts of the diagnostics in ascending order
SortedTexts(msgs) == SortedByKey(Texts(msgs), Texts(msgs))

----------------------------------------------------------------------------
(* States *)

\* ctx.errors = []; ctx.warnings = [] (lines 506-507);
\* ctx.portsymbols = set(); ctx.portnames = set() (lines 421-422)
EmptyCtx == [errors |-> <<>>, warnings |-> <<>>, portnames |-> {}, portsymbols |-> {}]

NoPort == [name |-> NoStr, symbol |-> NoStr, types |-> {}, properties |-> {},
           designation |-> NoStr, minimum |-> None, maximum |-> None, default |-> None,
           scalePoints |-> <<>>, shortName |-> NoStr, oldShortname |-> FALSE, unit |-> NoUnit]

NoResult == [raised |-> "", ctx |-> EmptyCtx, types |-> {}, info |-> NoInfo]

\* The values of the scenario "minimum=10, maximum=5, default=7"
ScenarioInts == {5, 7, 10}

RangeNodes ==
    {IntNode(n) : n \in (-MaxInt..MaxInt) \cup ScenarioInts}
        \cup {FloatNode(5 * h) : h \in -MaxHalf..MaxHalf}

\* Ports whose range facts vary: every combination of declared / absent
\* minimum, maximum and default, of both representations, of the integer and
\* sampleRate flags, of class and direction.
RangePorts ==
    [name : {"p"}, symbol : {"p"},
     types : {{"Input", "Control"}, {"Output", "Control"}, {"Input", "CV"}, {"Output", "CV"}},
     properties : SUBSET {"integer", "sampleRate"},
     designation : {NoStr, "latency"},
     minimum : RangeNodes \cup {None},
     maximum : RangeNodes \cup {None},
     default : RangeNodes \cup {None},
     scalePoints : {<<>>},
     shortName : {NoStr}, oldShortname : {FALSE}, unit : {NoUnit}]

ScaleNodes ==
    {IntNode(n) : n \in 0..MaxInt} \cup {FloatNode(5 * h) : h \in 0..MaxHalf}

\* A point without a label is dropped before its value is read: one such
\* point stands for all of them.
DeclaredPoints ==
    {[label |-> l, value |-> v] : l \in {"a", "b"}, v \in ScaleNodes \cup {None}}
        \cup {[label |-> NoStr, value |-> IntNode(0)]}

SeqsUpTo(S, n) == UNION {[1..k -> S] : k \in 0..n}

\* Ports whose scale points vary, over the declared ranges [0,1] and
\* [0,1.5] and over undeclared bounds.
ScalePorts ==
    [name : {"p"}, symbol : {"p"}, types : {{"Input", "Control"}},
     properties : SUBSET {"integer", "enumeration"},
     designation : {NoStr},
     minimum : {IntNode(0)},
     maximum : {IntNode(1), FloatNode(15), None},
     default : {IntNode(0)},
     scalePoints : SeqsUpTo(DeclaredPoints, MaxPoints),
     shortName : {NoStr}, oldShortname : {FALSE}, unit : {NoUnit}]

\* Ports of a plugin: names and symbols may be missing or repeated, a name may
\* equal another port's symbol, the direction marker may be missing.
PluginPorts ==
    [name : {NoStr, "a", "n"}, symbol : {NoStr, "a", "b"},
     types : {{"Input", "Audio"}, {"Output", "Control"}, {"Audio"}},
     properties : {{}}, designation : {NoStr},
     minimum : {IntNode(0)}, maximum : {IntNode(1)}, default : {IntNode(0)},
     scalePoints : {<<>>},
     shortName : {NoStr}, oldShortname : {FALSE}, unit : {NoUnit}]

\* Ports whose name and short name facts vary: names and short names of 1,
\* 16, 17 and 19 characters, the short name fact absent, the old style
\* 'shortname' fact present or not.
ShortNamePorts ==
    [name : {"p", "abcdefghijklmnop", "abcdefghijklmnopqrs"}, symbol : {"p"},
     types : {{"Input", "Audio"}, {"Input", "Control"}},
     properties : {{}}, designation : {NoStr},
     minimum : {IntNode(0)}, maximum : {IntNode(1)}, default : {IntNode(0)},
     scalePoints : {<<>>},
     shortName : {NoStr, "short", "abcdefghijklmnop", "abcdefghijklmnopq"},
     oldShortname : BOOLEAN, unit : {NoUnit}]

\* The units:unit facts of a port: none, a URI of the units namespace with a
\* known or an unknown suffix, or a custom unit whose label, render and symbol
\* facts are each absent, empty or non-empty.
UnitFacts ==
    {NoUnit}
    \cup [kind : {"lv2"}, suffix : {"hz", "pc", "bogus"},
          label : {NoStr}, render : {NoStr}, symbol : {NoStr}]
    \cup [kind : {"custom"}, suffix : {""},
          label : {NoStr, "", "volts"}, render : {NoStr, "", "%f V"},
          symbol : {NoStr, "", "V"}]

\* Ports whose unit facts vary, with and without the Control class
UnitPorts ==
    [name : {"p"}, symbol : {"p"},
     types : {{"Input", "Control"}, {"Input", "CV"}, {"Input", "Audio"}},
     properties : {{}}, designation : {NoStr},
     minimum : {IntNode(0)}, maximum : {IntNode(1)}, default : {IntNode(0)},
     scalePoints : {<<>>},
     shortName : {NoStr}, oldShortname : {FALSE}, unit : UnitFacts]

\* The numeric domain of a port and a normalised value re-declared in it
Domain(p) == IF "integer" \in p.properties THEN "int" ELSE "float"

\* A port declaring what a run returned: the normalised minimum, maximum and
\* default in the representation of the port's domain, and the returned scale
\* points.
Redeclare(p, info) ==
    [p EXCEPT !.minimum = [rep |-> Domain(p), v |-> info.ranges.minimum],
              !.maximum = [rep |-> Domain(p), v |-> info.ranges.maximum],
              !.default = [rep |-> Domain(p), v |-> info.ranges.default],
              !.scalePoints = info.scalePoints]

----------------------------------------------------------------------------
(* _get_plugin_ports as one call: plugin_info.py lines 404-437 *)

RECURSIVE PortsLoop(_, _, _, _)

\* The body of the loop for the i-th port (index i-1), r being what
\* _get_port_info returned or raised
PortsLoopOn(r, declaredports, i, entries) ==
    IF r.raised # ""
    THEN [raised |-> r.raised, ctx |-> r.ctx, ports |-> entries]
    ELSE IF RemoveDirectionRaises(r.types)
    THEN [raised |-> "ValueError", ctx |-> r.ctx, ports |-> entries]
    ELSE PortsLoop(r.ctx, declaredports, i + 1,
                   Append(entries, PortEntry(i - 1, r.types, r.info)))

\* for i in range(plugin.get_num_ports()): ...
PortsLoop(c, declaredports, i, entries) ==
    IF i > Len(declaredports)
    THEN [raised |-> "", ctx |-> c, ports |-> entries]
    ELSE PortsLoopOn(GetPortInfo(c, declaredports[i]), declaredports, i, entries)

\* ctx.portsymbols = set(); ctx.portnames = set()
\* (mutant: the sets of the previous plugin are kept)
ResetSeenSetsKeep(c) == c
ResetSeenSets(c) == [c EXCEPT !.portsymbols = {}, !.portnames = {}]

\* the sets are reset, then the loop
GetPluginPorts(c, declaredports) ==
    PortsLoop(ResetSeenSets(c), declaredports, 1, <<>>)

----------------------------------------------------------------------------
(* _get_plugin_presets: plugin_info.py lines 440-457 *)

\* key=lambda x: x['label'] or ''
\* (mutant: a missing label sorts after every label)
PresetKeyNoneLast(label) == IF label = NoStr THEN "~" ELSE label
PresetKey(label) == IF label = NoStr THEN "" ELSE label

\* the sort keys of a list of presets
PresetKeys(presets) == [i \in 1..Len(presets) |-> PresetKey(presets[i].label)]

\* the errors appended for the presets without an rdfs:label, in loop order
PresetErrors(presets) ==
    LET unlabelled == SelectSeq(presets, LAMBDA p : p.label = NoStr)
    IN  [i \in 1..Len(unlabelled) |->
            Msg("Preset has no rdfs:label", "", "", unlabelled[i].uri, <<>>)]

\* A preset is [uri, label], label NoStr when the preset has no rdfs:label.
GetPluginPresets(c, presets) ==
    [ctx |-> [c EXCEPT !.errors = @ \o PresetErrors(presets)],
     presets |-> SortedByKey(presets, PresetKeys(presets))]

----------------------------------------------------------------------------
(* _get_plugin_properties: plugin_info.py lines 460-495 *)

\* readable + writeable: the listed properties with their is_writable flag.
\* A property is [uri, defined, label, range]; defined tells whether it has
\* the type lv2:Parameter.
\* (mutant: writeable + readable)
ListedPropertiesWritableFirst(pl) ==
    [i \in 1..Len(pl.writable) |-> [prop |-> pl.writable[i], writable |-> TRUE]]
    \o [i \in 1..Len(pl.readable) |-> [prop |-> pl.readable[i], writable |-> FALSE]]
ListedProperties(pl) ==
    [i \in 1..Len(pl.readable) |-> [prop |-> pl.readable[i], writable |-> FALSE]]
    \o [i \in 1..Len(pl.writable) |-> [prop |-> pl.writable[i], writable |-> TRUE]]

\* the errors appended for the listed properties that have no definition
PropertyErrors(listed) ==
    LET undefined == SelectSeq(listed, LAMBDA l : ~l.prop.defined)
    IN  [i \in 1..Len(undefined) |->
            Msg("Could not find defintion of property", "", "", undefined[i].prop.uri, <<>>)]

\* properties[prop_uri] = {...}: the last listed entry of a URI stays
PropertiesDict(listed) ==
    LET defined == SelectSeq(listed, LAMBDA l : l.prop.defined)
        last(u) == CHOOSE i \in 1..Len(defined) :
                       /\ defined[i].prop.uri = u
                       /\ \A j \in (i+1)..Len(defined) : defined[j].prop.uri # u
    IN  [u \in {defined[i].prop.uri : i \in 1..Len(defined)} |->
            [uri |-> u, label |-> defined[last(u)].prop.label,
             type |-> defined[last(u)].prop.range,
             writable |-> defined[last(u)].writable]]

----------------------------------------------------------------------------
(* _get_plugin_info: plugin_info.py lines 498-656 *)

\* ctx.errors = errors = []; ctx.warnings = warnings = []
\* (mutant: the lists of the previous pass are kept)
ResetDiagnosticsKeep(c) == c
ResetDiagnostics(c) == [c EXCEPT !.errors = <<>>, !.warnings = <<>>]

\* a fact of the plugin that is missing appends its error
MissingError(fact, text) ==
    IF fact = NoStr THEN <<Msg(text, "", "", "", <<>>)>> ELSE <<>>

\* The version facts: NoVersion is the empty collection get_value returns
\* for a fact that is not declared.
VersionErrors(minorver, microver) ==
    IF microver = NoVersion /\ minorver = NoVersion
    THEN <<Msg("plugin is missing version information", "", "", "", <<>>)>>
    ELSE (IF minorver = NoVersion
          THEN <<Msg("plugin is missing minorVersion", "", "", "", <<>>)>> ELSE <<>>)
         \o
         (IF microver = NoVersion
          THEN <<Msg("plugin is missing microVersion", "", "", "", <<>>)>> ELSE <<>>)

\* minor_version, micro_version: int(ver[0]), or 0 for a missing fact
VersionValue(ver) == IF ver = NoVersion THEN 0 ELSE ver

\* lines 592-600
\* (mutant: an odd micro version alone does not make the plugin testing)
StabilityMinorOnly(minor_version, micro_version) ==
    IF minor_version = 0 THEN "experimental"
    ELSE IF minor_version % 2 # 0 THEN "testing"
    ELSE "stable"
Stability(minor_version, micro_version) ==
    IF minor_version = 0 THEN "experimental"
    ELSE IF minor_version % 2 # 0 \/ micro_version % 2 # 0 THEN "testing"
    ELSE "stable"

\* the errors of lines 509-600, in the order they are appended
HeadErrors(pl) ==
    (IF StartsWith(pl.uri, "file:")
     THEN <<Msg("plugin uri is local, and thus not suitable for redistribution",
                "", "", "", <<>>)>>
     ELSE <<>>)
    \o MissingError(pl.name, "plugin name is missing")
    \o MissingError(pl.binary, "plugin binary is missing")
    \o MissingError(pl.license, "plugin license is missing")
    \o MissingError(pl.comment, "plugin comment is missing")
    \o VersionErrors(pl.minorver, pl.microver)

\* the warnings of lines 527-555
HeadWarnings(pl) ==
    (IF pl.label = NoStr
     THEN <<Msg("plugin label is missing", "", "", "", <<>>)>>
     ELSE IF Len(pl.label) > MaxShortName
     THEN <<Msg("plugin label has more than 16 characters", "", "", "", <<>>)>>
     ELSE <<>>)
    \o
    (IF pl.brand = NoStr
     THEN <<Msg("plugin brand is missing", "", "", "", <<>>)>>
     ELSE IF Len(pl.brand) > MaxShortName
     THEN <<Msg("plugin brand has more than 11 characters", "", "", "", <<>>)>>
     ELSE <<>>)

\* label = getfirst(plugin, mod:label), else str(name)[:16] when there is a name
PluginLabel(pl) ==
    IF pl.label # NoStr THEN pl.label
    ELSE IF pl.name # NoStr THEN Prefix16(pl.name)
    ELSE NoStr

\* the context after lines 506-600
PluginHead(c, pl) ==
    [ResetDiagnostics(c) EXCEPT !.errors = @ \o HeadErrors(pl),
                                !.warnings = @ \o HeadWarnings(pl)]

NoPluginInfo ==
    [uri |-> NoStr, name |-> NoStr, label |-> NoStr, binary |-> NoStr, brand |-> NoStr,
     license |-> NoStr, comment |-> NoStr, minorVersion |-> 0, microVersion |-> 0,
     version |-> "", stability |-> "", ports |-> <<>>, presets |-> <<>>,
     properties |-> <<>>, errors |-> <<>>, warnings |-> <<>>]

\* The returned descriptor (lines 631-656); author, category and bundles,
\* which no diagnostic depends on, are left out.
Describe(pl, entries, presets, c) ==
    [raised |-> "",
     ctx |-> c,
     info |-> [uri |-> pl.uri, name |-> pl.name, label |-> PluginLabel(pl),
               binary |-> pl.binary, brand |-> pl.brand, license |-> pl.license,
               comment |-> pl.comment,
               minorVersion |-> VersionValue(pl.minorver),
               microVersion |-> VersionValue(pl.microver),
               version |-> ToString(VersionValue(pl.minorver)) \o "." \o
                           ToString(VersionValue(pl.microver)),
               stability |-> Stability(VersionValue(pl.minorver), VersionValue(pl.microver)),
               ports |-> entries,
               presets |-> presets,
               properties |-> PropertiesDict(ListedProperties(pl)),
               errors |-> SortedTexts(c.errors),
               warnings |-> SortedTexts(c.warnings)]]

\* lines 626-656, ps being what _get_plugin_presets returned
AfterPresets(pl, entries, ps) ==
    Describe(pl, entries, ps.presets,
             [ps.ctx EXCEPT !.errors = @ \o PropertyErrors(ListedProperties(pl))])

\* lines 623-656, r being what _get_plugin_ports returned or raised
AfterPorts(pl, r) ==
    IF r.raised # ""
    THEN [raised |-> r.raised, ctx |-> r.ctx, info |-> NoPluginInfo]
    ELSE AfterPresets(pl, r.ports, GetPluginPresets(r.ctx, pl.presets))

\* _get_plugin_info(ctx, plugin)
GetPluginInfo(c, pl) ==
    AfterPorts(pl, GetPluginPorts(PluginHead(c, pl), pl.ports))

----------------------------------------------------------------------------
(* Plugins *)

\* A well-formed audio input port
BasePort ==
    [name |-> "in", symbol |-> "a", types |-> {"Input", "Audio"},
     properties |-> {}, designation |-> NoStr,
     minimum |-> IntNode(0), maximum |-> IntNode(1), default |-> IntNode(0),
     scalePoints |-> <<>>, shortName |-> NoStr, oldShortname |-> FALSE, unit |-> NoUnit]

\* The ports of the plugins: a well-formed input and output, a port that
\* repeats the input's symbol, a control port with two scale points that
\* both lack a label, a port without name and a port without direction.
DiagPorts ==
    {BasePort,
     [BasePort EXCEPT !.name = "out", !.symbol = "b", !.types = {"Output", "Audio"}],
     [BasePort EXCEPT !.name = "twin"],
     [BasePort EXCEPT !.name = "gain", !.symbol = "g", !.types = {"Input", "Control"},
                      !.scalePoints = <<[label |-> NoStr, value |-> IntNode(0)],
                                        [label |-> NoStr, value |-> IntNode(1)]>>],
     [BasePort EXCEPT !.name = NoStr, !.symbol = "x"],
     [BasePort EXCEPT !.name = "where", !.symbol = "w", !.types = {"Audio"}]}

\* A plugin with every fact in order: version 2.4, no ports, presets or properties
BasePlugin ==
    [uri |-> "urn:amp", name |-> "Amp", label |-> "amp", binary |-> "amp.so",
     brand |-> "acme", license |-> "MIT", comment |-> "an amp",
     minorver |-> 2, microver |-> 4,
     ports |-> <<>>, presets |-> <<>>, readable |-> <<>>, writable |-> <<>>]

Versions == {NoVersion} \cup 0..MaxVersion

\* Plugins whose version facts vary
VersionPlugins ==
    {[BasePlugin EXCEPT !.minorver = a, !.microver = b] : a \in Versions, b \in Versions}

\* Plugins whose own facts vary: a local URI, a missing name, label, brand,
\* binary, license or comment, a label or brand of 17 characters
HeadPlugins ==
    [uri : {"urn:amp", "file:///amp"}, name : {NoStr, "Amp"},
     label : {NoStr, "amp", "abcdefghijklmnopq"}, binary : {NoStr, "amp.so"},
     brand : {NoStr, "acme", "abcdefghijklmnopq"}, license : {NoStr, "MIT"},
     comment : {NoStr, "an amp"}, minorver : {2}, microver : {4},
     ports : {<<>>}, presets : {<<>>}, readable : {<<>>}, writable : {<<>>}]

\* The presets related to a plugin: labels absent, empty, upper and lower case
PresetFacts ==
    [uri : {"urn:p1", "urn:p2", "urn:p3"}, label : {NoStr, "", "B", "a"}]

\* plugin.get_related(...) is a collection of distinct nodes
PresetSeqs ==
    {ps \in SeqsUpTo(PresetFacts, MaxPresets) :
        \A i, j \in 1..Len(ps) : i # j => ps[i].uri # ps[j].uri}

\* Plugins whose presets vary
PresetPlugins == {[BasePlugin EXCEPT !.presets = ps] : ps \in PresetSeqs}

\* The properties a plugin lists: one with and one without a definition
PropertyFacts ==
    {[uri |-> "urn:q", defined |-> TRUE, label |-> "Q", range |-> "float"],
     [uri |-> "urn:r", defined |-> FALSE, label |-> NoStr, range |-> NoStr]}

\* Plugins whose ports and listed properties vary
PortPlugins ==
    {[BasePlugin EXCEPT !.ports = ds, !.readable = rd, !.writable = wr] :
        ds \in SeqsUpTo(DiagPorts, MaxPluginPorts),
        rd \in SeqsUpTo(PropertyFacts, 1),
        wr \in SeqsUpTo(PropertyFacts, 1)}

\* The properties of the readable and writable relations: two with and one
\* without a definition
RelationFacts ==
    PropertyFacts \cup {[uri |-> "urn:s", defined |-> TRUE, label |-> "S", range |-> "int"]}

\* world.find_nodes(...) is a collection of distinct nodes
RelationSeqs ==
    {ps \in SeqsUpTo(RelationFacts, MaxPluginPorts) :
        \A i, j \in 1..Len(ps) : i # j => ps[i].uri # ps[j].uri}

\* Plugins whose readable and writable relations vary
PropertyPlugins ==
    {[BasePlugin EXCEPT !.readable = rd, !.writable = wr] :
        rd \in RelationSeqs, wr \in RelationSeqs}

\* The plugins of a bulk run: in order; without a name; with a repeated port
\* symbol; with an unlabelled preset and an undefined property listed as
\* readable and writable; with a port without name; with a port without
\* direction; with one port whose name and symbol are the symbol of the
\* ports of urn:c
BulkPlugins ==
    {BasePlugin,
     [BasePlugin EXCEPT !.uri = "urn:b", !.name = NoStr],
     [BasePlugin EXCEPT !.uri = "urn:c",
                        !.ports = <<BasePort, [BasePort EXCEPT !.name = "twin"]>>],
     [BasePlugin EXCEPT !.uri = "urn:d",
                        !.presets = <<[uri |-> "urn:p1", label |-> NoStr]>>,
                        !.readable = <<[uri |-> "urn:r", defined |-> FALSE,
                                        label |-> NoStr, range |-> NoStr]>>,
                        !.writable = <<[uri |-> "urn:r", defined |-> FALSE,
                                        label |-> NoStr, range |-> NoStr]>>],
     [BasePlugin EXCEPT !.uri = "urn:e",
                        !.ports = <<[BasePort EXCEPT !.name = NoStr, !.symbol = "x"]>>],
     [BasePlugin EXCEPT !.uri = "urn:f",
                        !.ports = <<[BasePort EXCEPT !.name = "where", !.symbol = "w",
                                                     !.types = {"Audio"}]>>],
     [BasePlugin EXCEPT !.uri = "urn:g",
                        !.ports = <<[BasePort EXCEPT !.name = "a"]>>]}

NoPlugin == [BasePlugin EXCEPT !.uri = NoStr]

NoPluginResult == [raised |-> "", ctx |-> EmptyCtx, info |-> NoPluginInfo]

----------------------------------------------------------------------------
(* Normalisation of one port, run twice *)

InitNorm ==
    /\ pc = "facts"
    /\ ToolsIdle
    /\ \/ port \in RangePorts
       \/ port \in ScalePorts
       \/ port \in ShortNamePorts
       \/ port \in UnitPorts
    /\ res = NoResult
    /\ res2 = NoResult
    /\ ctx = EmptyCtx
    /\ declared = <<>>
    /\ ports = <<>>
    /\ plugin = NoPlugin
    /\ pinfo = NoPluginResult
    /\ plugins = <<>>
    /\ infos = <<>>

\* _get_port_info(ctx, port) in a fresh plugin pass
Normalize ==
    /\ pc = "facts"
    /\ res' = GetPortInfo(EmptyCtx, port)
    /\ ctx' = res'.ctx
    /\ pc' = "normalized"
    /\ UNCHANGED <<port, res2, declared, ports>>
    /\ UNCHANGED pluginVars
    /\ UNCHANGED toolVars

\* _get_port_info in another fresh pass, on the port re-declared from the result
Renormalize ==
    /\ pc = "normalized"
    /\ res.raised = ""
    /\ res2' = GetPortInfo(EmptyCtx, Redeclare(port, res.info))
    /\ ctx' = res2'.ctx
    /\ pc' = "renormalized"
    /\ UNCHANGED <<port, res, declared, ports>>
    /\ UNCHANGED pluginVars
    /\ UNCHANGED toolVars

NextNorm == Normalize \/ Renormalize

SpecNorm == InitNorm /\ [][NextNorm]_vars

----------------------------------------------------------------------------
(* One plugin's port extraction *)

Init ==
    /\ pc = "start"
    /\ ToolsIdle
    /\ port = NoPort
    /\ res = NoResult
    /\ res2 = NoResult
    /\ ctx = EmptyCtx
    /\ declared = <<>>
    /\ ports = <<>>
    /\ plugin = NoPlugin
    /\ pinfo = NoPluginResult
    /\ plugins = <<>>
    /\ infos = <<>>

\* _get_plugin_info resets the diagnostics, _get_plugin_ports the seen sets
BeginPlugin ==
    /\ pc = "start"
    /\ ctx' = EmptyCtx
    /\ pc' = "ports"
    /\ UNCHANGED <<port, res, res2, declared, ports>>
    /\ UNCHANGED pluginVars
    /\ UNCHANGED toolVars

\* The body of the loop for port p, r being what _get_port_info returned
PortStepOn(p, r) ==
    /\ declared' = Append(declared, p)
    /\ ctx' = r.ctx
    /\ IF r.raised # ""
       THEN pc' = "raised" /\ ports' = ports
       ELSE IF RemoveDirectionRaises(r.types)
       THEN pc' = "raised" /\ ports' = ports
       ELSE /\ pc' = "ports"
            /\ ports' = Append(ports, PortEntry(Len(declared), r.types, r.info))

\* One iteration of the loop over the plugin's ports
PortStep ==
    /\ pc = "ports"
    /\ Len(declared) < MaxPorts
    /\ \E p \in PluginPorts : PortStepOn(p, GetPortInfo(ctx, p))
    /\ UNCHANGED <<port, res, res2>>
    /\ UNCHANGED pluginVars
    /\ UNCHANGED toolVars

\* The loop ends: the plugin had Len(declared) ports
EndPorts ==
    /\ pc = "ports"
    /\ pc' = "done"
    /\ UNCHANGED <<port, res, res2, ctx, declared, ports>>
    /\ UNCHANGED pluginVars
    /\ UNCHANGED toolVars

Next == BeginPlugin \/ PortStep \/ EndPorts

Spec == Init /\ [][Next]_vars

----------------------------------------------------------------------------
(* The description of one plugin: get_plugins_info(uri) *)

InitPlugin ==
    /\ pc = "plugin"
    /\ ToolsIdle
    /\ \/ plugin \in VersionPlugins
       \/ plugin \in HeadPlugins
       \/ plugin \in PresetPlugins
       \/ plugin \in PortPlugins
       \/ plugin \in PropertyPlugins
    /\ pinfo = NoPluginResult
    /\ plugins = <<>>
    /\ infos = <<>>
    /\ port = NoPort
    /\ res = NoResult
    /\ res2 = NoResult
    /\ ctx = EmptyCtx
    /\ declared = <<>>
    /\ ports = <<>>

\* return _get_plugin_info(ctx, plugins[uri])
DescribePlugin ==
    /\ pc = "plugin"
    /\ pinfo' = GetPluginInfo(ctx, plugin)
    /\ ctx' = pinfo'.ctx
    /\ pc' = IF pinfo'.raised # "" THEN "aborted" ELSE "described"
    /\ UNCHANGED <<port, res, res2, declared, ports, plugin, plugins, infos>>
    /\ UNCHANGED toolVars

NextPlugin == DescribePlugin

SpecPlugin == InitPlugin /\ [][NextPlugin]_vars

----------------------------------------------------------------------------
(* The bulk run: get_plugins_info() *)

InitBulk ==
    /\ pc = "bulk"
    /\ ToolsIdle
    /\ plugin = NoPlugin
    /\ pinfo = NoPluginResult
    /\ plugins = <<>>
    /\ infos = <<>>
    /\ port = NoPort
    /\ res = NoResult
    /\ res2 = NoResult
    /\ ctx = EmptyCtx
    /\ declared = <<>>
    /\ ports = <<>>

\* One element of [_get_plugin_info(ctx, p) for p in plugins], r being what
\* the call returned or raised: an exception leaves the comprehension and
\* get_plugins_info, and no list is returned.
BulkStepOn(pl, r) ==
    /\ plugins' = Append(plugins, pl)
    /\ ctx' = r.ctx
    /\ IF r.raised # ""
       THEN pc' = "aborted" /\ infos' = <<>>
       ELSE pc' = "bulk" /\ infos' = Append(infos, r.info)

BulkStep ==
    /\ pc = "bulk"
    /\ Len(plugins) < MaxPlugins
    /\ \E pl \in BulkPlugins : BulkStepOn(pl, GetPluginInfo(ctx, pl))
    /\ UNCHANGED <<port, res, res2, declared, ports, plugin, pinfo>>
    /\ UNCHANGED toolVars

\* the comprehension ends: the list of descriptors is returned
BulkReturn ==
    /\ pc = "bulk"
    /\ pc' = "returned"
    /\ UNCHANGED <<port, res, res2, ctx, declared, ports, plugin, pinfo, plugins, infos>>
    /\ UNCHANGED toolVars

NextBulk == BulkStep \/ BulkReturn

SpecBulk == InitBulk /\ [][NextBulk]_vars

----------------------------------------------------------------------------
(* Properties of the normalisation of one port (SpecNorm) *)

Normalized == pc # "facts" /\ res.raised = "" /\ res.info.hasRanges

IsInt == "integer" \in port.properties

HasError(errors, kind) == \E i \in 1..Len(errors) : errors[i].kind = kind

\* The errors the range block (lines 196-291) appends
RangeErrorKinds ==
    {"has integer property and CV type",
     "integer property but value has non-zero decimals",
     "minimum value is equal or higher than its maximum",
     "default value is out of bounds",
     "is missing default value",
     "is missing value ranges"}

RangeErrors(errors) ==
    SelectSeq(errors, LAMBDA m : m.kind \in RangeErrorKinds /\ m.what # "scalepoint")

\* C1: the range returned for a Control or CV port has minimum < maximum,
\* whatever was declared, also when the declared minimum is not below the
\* declared maximum and when integer coercion truncates both to one value.
C1_MinBelowMax ==
    /\ Normalized => res.info.ranges.minimum < res.info.ranges.maximum
    /\ (pc = "renormalized" /\ res2.info.hasRanges)
           => res2.info.ranges.minimum < res2.info.ranges.maximum

\* An integer port whose float bounds 1.0 < 1.5 truncate to the same value
C1_Witness ==
    /\ pc = "normalized"
    /\ IsInt
    /\ port.minimum.rep = "float" /\ port.maximum.rep = "float"
    /\ port.minimum.v < port.maximum.v
    /\ Trunc(port.minimum.v) = Trunc(port.maximum.v)
    /\ res.info.ranges.maximum = res.info.ranges.minimum + 10
    /\ HasError(res.ctx.errors, "minimum value is equal or higher than its maximum")

\* C2: the returned default lies within the bounds, which for a port with
\* the sampleRate flag are minimum*48000 and maximum*48000.
C2_DefaultInScaledBounds ==
    Normalized =>
        /\ TestBound(res.info.ranges.minimum, port.properties) <= res.info.ranges.default
        /\ res.info.ranges.default <= TestBound(res.info.ranges.maximum, port.properties)

\* the points that survive the loop of lines 298-331 under the returned range
Survivors == ScanScalePoints(port.scalePoints, res.info.ranges, IsInt, port.name).unsorted

SurvivingValues == {Survivors[i].value : i \in 1..Len(Survivors)}

\* C3: every scale point of the returned list carries a value within the
\* normalised bounds; a declared point whose coerced value is out of bounds
\* is not in the returned list.
C3_ScalePointsInBounds ==
    Normalized =>
        \A i \in 1..Len(res.info.scalePoints) :
            LET e == res.info.scalePoints[i]
            IN  e.value # None =>
                    ScalePointInBounds(res.info.ranges.minimum,
                                       Coerce(IsInt, e.value, "scalepoint", e.label, port.name).value,
                                       res.info.ranges.maximum)

\* C4: the list built from the surviving scale points is strictly ascending
\* by value, so no value occurs twice.
C4_StrictlyAscending ==
    (Normalized /\ Survivors # <<>>) =>
        \A i, j \in 1..Len(res.info.scalePoints) :
            i < j => res.info.scalePoints[i].value.v < res.info.scalePoints[j].value.v

\* C5: a port declaring enumeration keeps the flag, without the error, iff
\* at least 2 scale points of distinct value survive; otherwise the flag is
\* removed and the error recorded.
C5_EnumerationNeedsTwo ==
    (Normalized /\ "enumeration" \in port.properties) =>
        IF Cardinality(SurvivingValues) < 2
        THEN /\ "enumeration" \notin res.info.properties
             /\ HasError(res.ctx.errors, "wants to use enumeration but doesn't have enough values")
        ELSE /\ "enumeration" \in res.info.properties
             /\ ~HasError(res.ctx.errors, "wants to use enumeration but doesn't have enough values")

\* C8: a second run on the re-declared result of a run returns the same
\* range and the same scale point list.
C8_Idempotent ==
    pc = "renormalized" =>
        /\ res2.info.ranges = res.info.ranges
        /\ res2.info.scalePoints = res.info.scalePoints

\* A first run that changed both the declared maximum and the scale points
C8_Witness ==
    /\ pc = "renormalized"
    /\ res.info.scalePoints # <<>>
    /\ res.info.scalePoints # port.scalePoints
    /\ port.maximum # None
    /\ res.info.ranges.maximum # port.maximum.v

\* The port of the scenario: integer flag, minimum=10, maximum=5, default=7
ScenarioPort ==
    /\ IsInt
    /\ "Control" \in port.types
    /\ port.minimum = IntNode(10)
    /\ port.maximum = IntNode(5)
    /\ port.default = IntNode(7)

\* C9 as stated: minimum=10, maximum=11, the minimum >= maximum error, and
\* the default 7 kept with no out-of-bounds handling.
C9_DefaultKept ==
    (Normalized /\ ScenarioPort) =>
        /\ res.info.ranges.minimum = 100
        /\ res.info.ranges.maximum = 110
        /\ HasError(res.ctx.errors, "minimum value is equal or higher than its maximum")
        /\ res.info.ranges.default = 70
        /\ ~HasError(res.ctx.errors, "default value is out of bounds")

\* C9 amended: minimum=10, maximum=11, the minimum >= maximum error; the
\* default 7 is below the minimum 10, so it is replaced by the minimum and the
\* out-of-bounds error is recorded.
C9_DefaultClamped ==
    (Normalized /\ ScenarioPort) =>
        /\ res.info.ranges.minimum = 100
        /\ res.info.ranges.maximum = 110
        /\ HasError(res.ctx.errors, "minimum value is equal or higher than its maximum")
        /\ res.info.ranges.default = 100
        /\ HasError(res.ctx.errors, "default value is out of bounds")

C9_Witness ==
    /\ pc = "normalized"
    /\ ScenarioPort
    /\ "sampleRate" \notin port.properties
    /\ res.info.ranges = [minimum |-> 100, maximum |-> 110, default |-> 100]

\* A Control port without the integer flag declaring no minimum and no maximum
UndeclaredControl ==
    /\ "Control" \in port.types
    /\ "CV" \notin port.types
    /\ ~IsInt
    /\ port.minimum = None
    /\ port.maximum = None

MissingRangesOnly(errors) ==
    /\ Len(RangeErrors(errors)) = 1
    /\ RangeErrors(errors)[1].kind = "is missing value ranges"

\* C10 as stated: the range is 0.0, 1.0, 0.0 and range normalisation records
\* exactly one error, the missing value ranges error.
C10_OneError ==
    (Normalized /\ UndeclaredControl) =>
        /\ res.info.ranges = [minimum |-> 0, maximum |-> 10, default |-> 0]
        /\ MissingRangesOnly(res.ctx.errors)

\* C10 amended: the range is 0.0, 1.0, 0.0; range normalisation records
\* exactly one error, the missing value ranges error, unless the port's
\* designation is lv2:latency, and then it records none.
C10_OneErrorUnlessLatency ==
    (Normalized /\ UndeclaredControl) =>
        /\ res.info.ranges = [minimum |-> 0, maximum |-> 10, default |-> 0]
        /\ IF port.designation = "latency"
           THEN RangeErrors(res.ctx.errors) = <<>>
           ELSE MissingRangesOnly(res.ctx.errors)

\* An output port with a declared default and no bounds
C10_Witness ==
    /\ pc = "normalized"
    /\ UndeclaredControl
    /\ "Output" \in port.types
    /\ port.default # None
    /\ port.designation # "latency"
    /\ MissingRangesOnly(res.ctx.errors)

----------------------------------------------------------------------------
(* Properties of one plugin's port extraction (Spec) *)

HasMsg(list, kind, name) ==
    \E i \in 1..Len(list) : list[i].kind = kind /\ list[i].port = name

\* C6: a port whose symbol equals the symbol of a port of lower index has
\* the 'port symbol is not unique' error recorded; with all symbols distinct
\* no such error is recorded.
C6_DuplicateSymbolError ==
    /\ \A k \in 1..Len(declared) :
          (declared[k].symbol # NoStr
             /\ \E j \in 1..(k-1) : declared[j].symbol = declared[k].symbol)
          => HasMsg(ctx.errors, "port symbol is not unique", declared[k].symbol)
    /\ (\A j, k \in 1..Len(declared) : j # k => declared[j].symbol # declared[k].symbol)
          => ~HasError(ctx.errors, "port symbol is not unique")

\* C7: in a pass that raised nothing, a port whose name equals the name of a
\* port of lower index, with another symbol, has the 'port name is not
\* unique' warning recorded, and no error is recorded for it.
C7_DuplicateNameWarning ==
    pc # "raised" =>
        /\ \A k \in 1..Len(declared) :
              (\E j \in 1..(k-1) : /\ declared[j].name = declared[k].name
                                   /\ declared[j].symbol # declared[k].symbol)
              => HasMsg(ctx.warnings, "port name is not unique", declared[k].name)
        /\ ~HasError(ctx.errors, "port name is not unique")

----------------------------------------------------------------------------
(* Properties of the port loop, continued (Spec) *)

\* C14: a port declaring no name (no symbol) is described: the call
\* completes, the returned name (symbol) is "_" followed by the port's index
\* and the error 'port with index N has no name' ('no symbol') is recorded.
C14_MissingNameSynthesized ==
    \A i \in 1..Len(declared) :
        /\ declared[i].name = NoStr =>
              /\ \E k \in 1..Len(ports) :
                    /\ ports[k].index = i - 1
                    /\ ports[k].info.name = "_" \o ToString(i - 1)
              /\ HasError(ctx.errors, "port with index has no name")
        /\ declared[i].symbol = NoStr =>
              /\ \E k \in 1..Len(ports) :
                    /\ ports[k].index = i - 1
                    /\ ports[k].info.symbol = "_" \o ToString(i - 1)
              /\ HasError(ctx.errors, "port with index has no symbol")

\* every port declared so far has a name and a symbol
AllNamed ==
    \A i \in 1..Len(declared) : declared[i].name # NoStr /\ declared[i].symbol # NoStr

\* C15: a port whose types hold neither Input nor Output does not make the
\* loop raise: a diagnostic is recorded for it, the loop goes on and the port
\* is listed under no direction.
C15_NoDirectionIsDiagnosed ==
    AllNamed =>
        \A i \in 1..Len(declared) :
            RemoveDirectionRaises(declared[i].types) =>
                /\ pc # "raised"
                /\ ctx.errors # <<>>
                /\ \A k \in 1..Len(ports) : ports[k].index # i - 1

\* the lists a port of the given types belongs to
ClassesOf(types) == types \ {"Input", "Output"}

\* C18: when the loop over a plugin's ports is over, every port index has
\* its descriptor: the port is in the list of each of its classes under its
\* direction, with its declaration index, and the indices of every list are
\* strictly ascending.
C18_EveryPortListed ==
    pc \in {"done", "raised"} =>
        /\ \A i \in 1..Len(declared) :
              \A typ \in ClassesOf(declared[i].types) :
                  \E k \in 1..Len(PortList(ports, typ, IF "Input" \in declared[i].types
                                                       THEN "input" ELSE "output")) :
                      PortList(ports, typ, IF "Input" \in declared[i].types
                                           THEN "input" ELSE "output")[k].index = i - 1
        /\ \A typ \in {"Audio", "Control", "CV"}, d \in {"input", "output"} :
              \A j, k \in 1..Len(PortList(ports, typ, d)) :
                  j < k => PortList(ports, typ, d)[j].index < PortList(ports, typ, d)[k].index

----------------------------------------------------------------------------
(* Properties of the short name and the unit of one port (SpecNorm) *)

\* C19: the returned shortName has at most 16 characters, whether it is the
\* explicit short name fact or derived from the name; an explicit short name
\* of more than 16 characters records an error.
C19_ShortNameAtMost16 ==
    (pc # "facts" /\ res.raised = "") =>
        /\ Len(res.info.shortName) <= MaxShortName
        /\ (port.shortName # NoStr /\ Len(port.shortName) > MaxShortName)
              => HasError(res.ctx.errors, "short name has more than 16 characters")

\* label, render and symbol of the declared unit all resolve to non-empty strings
UnitResolved ==
    \/ port.unit.kind = "lv2" /\ port.unit.suffix \in DOMAIN LV2_UNITS
    \/ /\ port.unit.kind = "custom"
       /\ port.unit.label \notin {NoStr, ""}
       /\ port.unit.render \notin {NoStr, ""}
       /\ port.unit.symbol \notin {NoStr, ""}

UnitErrorKinds ==
    {"has invalid lv2 unit", "has custom unit with no label",
     "has custom unit with no render", "has custom unit with no symbol"}

\* C20: a Control port carries a unit iff label, render and symbol all
\* resolved to non-empty strings; a declared unit that is not attached has at
\* least one error explaining it; a port without the Control class carries no
\* unit.
C20_UnitAttachedOrExplained ==
    (pc # "facts" /\ res.raised = "") =>
        /\ "Control" \in port.types => (res.info.units.attached <=> UnitResolved)
        /\ ("Control" \in port.types /\ port.unit.kind # "none" /\ ~res.info.units.attached)
              => \E k \in UnitErrorKinds : HasError(res.ctx.errors, k)
        /\ "Control" \notin port.types => ~res.info.units.attached

----------------------------------------------------------------------------
(* Properties of the description of one plugin (SpecPlugin) *)

VersionErrorKinds ==
    {"plugin is missing version information", "plugin is missing minorVersion",
     "plugin is missing microVersion"}

\* C11: the stability is experimental if minor is 0, otherwise testing if
\* minor or micro is odd, otherwise stable: (2,3) is testing, (2,4) stable,
\* (0,0) experimental; a missing minor or micro version fact counts as 0 and
\* is recorded as an error.
C11_StabilityDerived ==
    pc = "described" =>
        /\ pinfo.info.minorVersion = (IF plugin.minorver = NoVersion THEN 0 ELSE plugin.minorver)
        /\ pinfo.info.microVersion = (IF plugin.microver = NoVersion THEN 0 ELSE plugin.microver)
        /\ pinfo.info.stability =
              (IF pinfo.info.minorVersion = 0 THEN "experimental"
               ELSE IF pinfo.info.minorVersion % 2 = 1 \/ pinfo.info.microVersion % 2 = 1
               THEN "testing"
               ELSE "stable")
        /\ (plugin.minorver = 2 /\ plugin.microver = 3) => pinfo.info.stability = "testing"
        /\ (plugin.minorver = 2 /\ plugin.microver = 4) => pinfo.info.stability = "stable"
        /\ (plugin.minorver = 0 /\ plugin.microver = 0) => pinfo.info.stability = "experimental"
        /\ (plugin.minorver = NoVersion \/ plugin.microver = NoVersion)
              => \E k \in VersionErrorKinds : HasError(pinfo.ctx.errors, k)

\* The plugin of the scenario minorVersion=2, microVersion=3, described as testing
C11_Witness ==
    /\ pc = "described"
    /\ plugin.minorver = 2
    /\ plugin.microver = 3
    /\ pinfo.info.stability = "testing"

\* the sort key of a preset label: a missing label counts as the empty string
LabelKey(label) == IF label = NoStr THEN "" ELSE label

\* C12: every related preset is in the returned list exactly once; the list
\* ascends by label, a missing label counting as the empty string, so the
\* unlabelled presets precede those with a non-empty label; an unlabelled
\* preset has the label None and exactly one error naming its URI.
C12_PresetsListedSorted ==
    pc = "described" =>
        /\ Len(pinfo.info.presets) = Len(plugin.presets)
        /\ \A i \in 1..Len(plugin.presets) :
              Cardinality({k \in 1..Len(pinfo.info.presets) :
                              pinfo.info.presets[k] = plugin.presets[i]}) = 1
        /\ \A i, j \in 1..Len(pinfo.info.presets) :
              i < j => ~StrLess(LabelKey(pinfo.info.presets[j].label),
                                LabelKey(pinfo.info.presets[i].label))
        /\ \A i, j \in 1..Len(pinfo.info.presets) :
              (pinfo.info.presets[i].label = NoStr
                 /\ pinfo.info.presets[j].label \notin {NoStr, ""}) => i < j
        /\ \A i \in 1..Len(plugin.presets) :
              plugin.presets[i].label = NoStr =>
                  Cardinality({k \in 1..Len(pinfo.ctx.errors) :
                                  /\ pinfo.ctx.errors[k].kind = "Preset has no rdfs:label"
                                  /\ pinfo.ctx.errors[k].label = plugin.presets[i].uri}) = 1

\* Three presets related in the order 'a', unlabelled, 'B': returned as
\* unlabelled, 'B', 'a'
C12_Witness ==
    /\ pc = "described"
    /\ Len(plugin.presets) = 3
    /\ plugin.presets[1].label = "a"
    /\ plugin.presets[2].label = NoStr
    /\ plugin.presets[3].label = "B"
    /\ pinfo.info.presets = <<plugin.presets[2], plugin.presets[3], plugin.presets[1]>>
    /\ Len(pinfo.ctx.errors) = 1

\* strictly ascending texts: sorted, and no text twice
StrictlyAscendingTexts(texts) ==
    \A i, j \in 1..Len(texts) : i < j => StrLess(texts[i], texts[j])

\* C13: the errors and the warnings of a returned descriptor are sorted and
\* hold no message twice, also when a diagnostic was raised several times.
C13_DiagnosticsSortedUnique ==
    pc = "described" =>
        /\ StrictlyAscendingTexts(pinfo.info.errors)
        /\ StrictlyAscendingTexts(pinfo.info.warnings)

----------------------------------------------------------------------------
(* Properties of the bulk run (SpecBulk) *)

\* C16: a plugin with malformed or missing metadata does not keep the bulk
\* run from describing the others: the run ends by returning one descriptor
\* per plugin.
C16_OneDescriptorPerPlugin ==
    pc \in {"returned", "aborted"} =>
        /\ pc = "returned"
        /\ Len(infos) = Len(plugins)
        /\ \A k \in 1..Len(plugins) : infos[k].uri = plugins[k].uri

\* C17: the errors and warnings returned for a plugin of a bulk run are
\* those of validating that plugin alone: nothing of an earlier plugin's pass
\* is in them and nothing of its own is missing.
C17_DiagnosticsOfOwnPlugin ==
    \A k \in 1..Len(infos) :
        /\ infos[k].errors = GetPluginInfo(EmptyCtx, plugins[k]).info.errors
        /\ infos[k].warnings = GetPluginInfo(EmptyCtx, plugins[k]).info.warnings

\* A returned run of three plugins: two with different errors, then one with none
C17_Witness ==
    /\ pc = "returned"
    /\ Len(infos) = 3
    /\ infos[1].errors # <<>>
    /\ infos[2].errors # <<>>
    /\ infos[1].errors # infos[2].errors
    /\ infos[3].errors = <<>>
    /\ infos[3].warnings = <<>>

----------------------------------------------------------------------------
(* The descriptor extraction while another program of the repository runs *)

ExtractorIdle ==
    /\ pc = "idle"
    /\ port = NoPort
    /\ res = NoResult
    /\ res2 = NoResult
    /\ ctx = EmptyCtx
    /\ declared = <<>>
    /\ ports = <<>>
    /\ plugin = NoPlugin
    /\ pinfo = NoPluginResult
    /\ plugins = <<>>
    /\ infos = <<>>

----------------------------------------------------------------------------
(* JackMidiToTransport: src/transport/midi_to_transport.py and            *)
(* src/transport/rtmidi_to_transport.py.  A MIDI message is the sequence  *)
(* of its bytes.  transport_start(), transport_stop() and the assignment  *)
(* to transport_frame are requests to the JACK server, which applies them *)
(* in a later process cycle.  The body of process is the same text in     *)
(* both clients (rtmidi_to_transport.py lines 82-100).                    *)

\* data[i]: Python indices start at 0
Byte(d, i) == d[i + 1]

UniversalRealTime == 127     \* 0x7F in data[1]

\* self.device == 0x7F or data[2] == self.device
\* (mutant: the message's device byte 127 is taken as "all devices" too)
DeviceMatchesOrBroadcast(dev, devbyte) ==
    dev = AllDevices \/ devbyte = dev \/ devbyte = AllDevices
DeviceMatches(dev, devbyte) == dev = AllDevices \/ devbyte = dev

\* cmd in (MMC_PLAY, MMC_DEFERRED_PLAY)
StartsTransport(cmd) == cmd \in {MMC_PLAY, MMC_DEFERRED_PLAY}

\* cmd in (MMC_STOP, MMC_PAUSE, MMC_RESET)
\* (mutant: RESET only rewinds)
StopsTransportNoReset(cmd) == cmd \in {MMC_STOP, MMC_PAUSE}
StopsTransport(cmd) == cmd \in {MMC_STOP, MMC_PAUSE, MMC_RESET}

\* cmd in (MMC_REWIND, MMC_RESET)
Rewinds(cmd) == cmd \in {MMC_REWIND, MMC_RESET}

\* The calls process makes for the message d when the transport state it
\* read is ts: the if / elif chain on the status byte, and inside the SysEx
\* branch the if / elif on the command followed by the separate rewind test.
Reaction(dev, d, ts) ==
    LET status == Byte(d, 0)
    IN  IF status \in {MIDI_START, MIDI_CONTINUE} /\ ts = "STOPPED"
        THEN {"transport_start"}
        ELSE IF status = MIDI_STOP /\ ts # "STOPPED"
        THEN {"transport_stop"}
        ELSE IF status = MIDI_SYSEX
        THEN IF /\ Len(d) = SysExLen
                /\ Byte(d, 1) = UniversalRealTime
                /\ Byte(d, 3) = MmcSubId
                /\ DeviceMatches(dev, Byte(d, 2))
             THEN (IF StartsTransport(Byte(d, 4)) /\ ts = "STOPPED"
                   THEN {"transport_start"}
                   ELSE IF StopsTransport(Byte(d, 4)) /\ ts # "STOPPED"
                   THEN {"transport_stop"}
                   ELSE {})
                  \cup
                  (IF Rewinds(Byte(d, 4)) THEN {"transport_frame"} ELSE {})
             ELSE {}
        ELSE {}

\* jack.STOPPED, jack.ROLLING, jack.STARTING
TransportStates == {"STOPPED", "ROLLING", "STARTING"}

\* What the server makes of the transport state in one cycle, given the
\* pending request
NextStates(state, cmd) ==
    IF cmd = "stop" THEN {"STOPPED"}
    ELSE IF cmd = "start"
    THEN (IF state = "STOPPED" THEN {"STARTING", "ROLLING"} ELSE {"ROLLING"})
    ELSE IF state = "STARTING" THEN {"STARTING", "ROLLING"}
    ELSE {state}

\* the frame after one cycle
NextFrame(frame, relocated, state) ==
    IF relocated THEN 0
    ELSE IF state = "ROLLING" /\ frame < MaxFrame THEN frame + 1
    ELSE frame

\* max(0, min(args.device, 127)) of a few device numbers
Devices == {0, 1, AllDevices}

\* The command bytes that mean something to the client, and three that do not
Commands == {0, MMC_STOP, MMC_PLAY, MMC_DEFERRED_PLAY, 4, MMC_REWIND,
             MMC_PAUSE, MMC_RESET, MaxCmd}

\* The messages received: System Real-time messages, a note, MMC commands to
\* each device, and SysEx messages that are no MMC command (other universal
\* id, other sub-id, shorter, longer)
Messages ==
    {<<MIDI_START>>, <<MIDI_CONTINUE>>, <<MIDI_STOP>>, <<248>>, <<144, 60, 100>>}
    \cup {<<MIDI_SYSEX, UniversalRealTime, dev, MmcSubId, cmd, 247>> :
             dev \in Devices, cmd \in Commands}
    \cup {<<MIDI_SYSEX, 126, AllDevices, MmcSubId, cmd, 247>> :
             cmd \in {MMC_PLAY, MMC_RESET}}
    \cup {<<MIDI_SYSEX, UniversalRealTime, AllDevices, 7, cmd, 247>> :
             cmd \in {MMC_PLAY, MMC_RESET}}
    \cup {<<MIDI_SYSEX, 247>>,
          <<MIDI_SYSEX, UniversalRealTime, AllDevices, MmcSubId, 247>>,
          <<MIDI_SYSEX, UniversalRealTime, AllDevices, MmcSubId, MMC_RESET, 0, 247>>}

InitTransport ==
    /\ ExtractorIdle
    /\ MonitorIdle
    /\ MapperIdle
    /\ device \in Devices
    /\ backend \in {"jack", "rtmidi"}
    /\ transport_state \in TransportStates
    /\ transport_frame = 0
    /\ transport_cmd = "none"
    /\ locate = FALSE
    /\ incoming = 0
    /\ data = <<>>
    /\ t_state = ""
    /\ calls = {}

\* process for the message d, done being the calls it makes
ProcessOn(d, done) ==
    /\ data' = d
    /\ t_state' = transport_state
    /\ calls' = done
    /\ transport_cmd' = IF "transport_start" \in done THEN "start"
                        ELSE IF "transport_stop" \in done THEN "stop"
                        ELSE transport_cmd
    /\ locate' = (locate \/ "transport_frame" \in done)
    /\ UNCHANGED <<device, backend, transport_state, transport_frame>>

\* midi_to_transport.py: one iteration of the loop over incoming_midi_events()
JackProcess ==
    /\ backend = "jack"
    /\ incoming > 0
    /\ incoming' = incoming - 1
    /\ \E d \in Messages : ProcessOn(d, Reaction(device, d, transport_state))
    /\ UNCHANGED <<extractorVars, monitorVars, mapperVars>>

\* rtmidi_to_transport.py: the callback of the MIDI input for one message
RtmidiProcess ==
    /\ backend = "rtmidi"
    /\ incoming' = incoming
    /\ \E d \in Messages : ProcessOn(d, Reaction(device, d, transport_state))
    /\ UNCHANGED <<extractorVars, monitorVars, mapperVars>>

\* The JACK server ends a cycle and begins the next: pending requests take
\* effect, a rolling transport advances, and the process callback of the
\* jack client finds up to MaxEvents events.  The callback has iterated over
\* all events of a cycle before the cycle ends.
Cycle ==
    /\ backend = "jack" => incoming = 0
    /\ transport_state' \in NextStates(transport_state, transport_cmd)
    /\ transport_frame' = NextFrame(transport_frame, locate, transport_state')
    /\ transport_cmd' = "none"
    /\ locate' = FALSE
    /\ IF backend = "jack" THEN incoming' \in 0..MaxEvents ELSE incoming' = 0
    /\ UNCHANGED <<device, backend, data, t_state, calls>>
    /\ UNCHANGED <<extractorVars, monitorVars, mapperVars>>

NextTransport == JackProcess \/ RtmidiProcess \/ Cycle

SpecTransport == InitTransport /\ [][NextTransport]_vars

----------------------------------------------------------------------------
(* Properties of the MIDI transport client (SpecTransport) *)

\* a step in which process handles a message
ProcessStep == JackProcess \/ RtmidiProcess

\* a 6-byte MMC SysEx message: F0 7F <device> 06 <command> <end>
IsMmcMessage(d) ==
    /\ Len(d) = 6
    /\ d[1] = 240
    /\ d[2] = 127
    /\ d[4] = 6

\* C21: a 6-byte MMC SysEx message changes the transport only if its device
\* byte equals the client's device number or the client's device number is
\* 127; with another client device number, an MMC message with any other
\* device byte (127 included) makes no call and leaves the transport state,
\* the transport frame and the pending requests as they are.
C21_ForeignDeviceIgnored ==
    [][(/\ ProcessStep
        /\ IsMmcMessage(data')
        /\ device # 127
        /\ data'[3] # device)
       => (calls' = {} /\ UNCHANGED serverVars)]_vars

\* A client with device number 1 has handled MMC PLAY sent to device 127
\* while the transport was stopped, and has made no call
C21_Witness ==
    /\ device = 1
    /\ IsMmcMessage(data)
    /\ data[3] = 127
    /\ data[5] = 2
    /\ t_state = "STOPPED"
    /\ calls = {}
    /\ transport_cmd = "none"

\* the MMC command a message carries for a client with number dev; -1 when
\* the message is no MMC command for it
MmcCommandFor(dev, d) ==
    IF IsMmcMessage(d) /\ (dev = 127 \/ d[3] = dev) THEN d[5] ELSE -1

\* the messages documented to start, to stop and to rewind the transport
DocumentedStart(dev, d) ==
    d[1] \in {250, 251} \/ MmcCommandFor(dev, d) \in {2, 3}

DocumentedStop(dev, d) ==
    d[1] = 252 \/ MmcCommandFor(dev, d) \in {1, 9, 13}

DocumentedRewind(dev, d) == MmcCommandFor(dev, d) \in {5, 13}

\* C22: for each message received, START, CONTINUE, MMC PLAY and MMC
\* DEFERRED PLAY request a transport start when the transport is stopped;
\* STOP, MMC STOP, MMC PAUSE and MMC RESET request a transport stop when it
\* is not stopped; MMC REWIND and MMC RESET request frame 0 whatever the
\* state; nothing else is requested, and the handling itself changes neither
\* the transport state nor the frame.
C22_DocumentedReaction ==
    [][ProcessStep =>
        /\ calls' =
              (IF DocumentedStart(device, data') /\ transport_state = "STOPPED"
               THEN {"transport_start"} ELSE {})
              \cup
              (IF DocumentedStop(device, data') /\ transport_state # "STOPPED"
               THEN {"transport_stop"} ELSE {})
              \cup
              (IF DocumentedRewind(device, data') THEN {"transport_frame"} ELSE {})
        /\ transport_cmd' = IF "transport_start" \in calls' THEN "start"
                            ELSE IF "transport_stop" \in calls' THEN "stop"
                            ELSE transport_cmd
        /\ locate' = (locate \/ "transport_frame" \in calls')
        /\ UNCHANGED <<transport_state, transport_frame>>]_vars

\* MMC RESET handled while the transport was rolling: stop and rewind, and
\* the server has since applied both
C22_Witness ==
    /\ IsMmcMessage(data)
    /\ data[5] = 13
    /\ t_state = "ROLLING"
    /\ calls = {"transport_stop", "transport_frame"}
    /\ transport_state = "STOPPED"
    /\ transport_frame = 0
    /\ transport_cmd = "none"

----------------------------------------------------------------------------
(* JackMonitor: src/jackdbus/jackmonitor.py.  The monitor runs in a GLib   *)
(* main loop: every callback (a D-Bus reply, error or signal, a timeout)   *)
(* runs to its end before the next.  The D-Bus connection delivers the     *)
(* messages of the service in the order they were sent.  A method call is  *)
(* addressed to the incarnation of the service the interface was made for; *)
(* once that incarnation is gone the bus answers the call with the error   *)
(* org.freedesktop.DBus.Error.ServiceUnknown.                              *)

\* The calls of get_jack_stats in order (lines 216-221), with whether the
\* call passes an error callback: get_xruns (line 118) drops it
StatsCalls ==
    <<[name |-> "is_realtime", ecb |-> TRUE],
      [name |-> "samplerate", ecb |-> TRUE],
      [name |-> "period", ecb |-> TRUE],
      [name |-> "load", ecb |-> TRUE],
      [name |-> "xruns", ecb |-> FALSE],
      [name |-> "latency", ecb |-> TRUE]>>

\* a method call sent through the interface to incarnation inst
CallTo(inst, c) == [name |-> c.name, ecb |-> c.ecb, inst |-> inst]

\* the messages the connection delivers to the monitor
Reply(c, value) ==
    [type |-> "reply", name |-> c.name, value |-> value, ecb |-> c.ecb, kind |-> ""]

ErrorReply(c, kind) ==
    [type |-> "error", name |-> c.name, value |-> 0, ecb |-> c.ecb, kind |-> kind]

Signal(name) ==
    [type |-> "signal", name |-> name, value |-> 0, ecb |-> FALSE, kind |-> ""]

\* a Python value that is truthy: neither None nor 0 / False
TruthyStatus(v) == v # NoStatus /\ v # 0

\* update_jack_status: the command is run for this update
\* name == 'is_started' and self.args.command, unless
\* old_status is None and self.args.skip_initial
RunsCommand(a, old_status, name) ==
    /\ name = "is_started"
    /\ a.command
    /\ ~(old_status = NoStatus /\ a.skip_initial)

\* the last two elements of a sequence
LastTwo(s) == IF Len(s) > 2 THEN SubSeq(s, Len(s) - 1, Len(s)) ELSE s

\* update_jack_status(value, name)
UpdateJackStatus(value, name) ==
    /\ jack_status' = [jack_status EXCEPT ![name] = value]
    /\ launched' = IF RunsCommand(args, jack_status[name], name)
                   THEN LastTwo(Append(launched, IF value # 0 THEN "start" ELSE "stop"))
                   ELSE launched

\* handle_dbus_error acts on the error:
\* 'org.freedesktop.DBus.Error.ServiceUnknown' in str(args[0]) and self.jackctl
\* (mutant: the interface is not looked at)
VanishHandledAlways(kind, ctl) == kind = "ServiceUnknown"
VanishHandled(kind, ctl) == kind = "ServiceUnknown" /\ ctl # 0

\* the command line values of --interval-stats and --interval-reconnect
StatsIntervals == {INTERVAL_STATS, 500}

ReconnectIntervals == {0, INTERVAL_RECONNECT}

\* The monitor as __init__ leaves it when the first dbus_connect succeeded
\* (when it fails, line 144 raises AttributeError and no monitor exists):
\* an interface to the running service with its signal handler, the stats
\* timeouts if asked for, and the IsStarted call on its way, which passes no
\* error callback.
InitMonitor ==
    /\ ExtractorIdle
    /\ TransportIdle
    /\ MapperIdle
    /\ args \in [command : BOOLEAN, skip_initial : BOOLEAN,
                 interval_stats : StatsIntervals, interval_reconnect : ReconnectIntervals]
    /\ args.skip_initial => args.command
    /\ service \in [up : {TRUE}, started : BOOLEAN, instance : {1}, watched : {TRUE}]
    /\ jackctl = 1
    /\ jack_status = NoJackStatus
    /\ timeouts = [get_jack_stats |-> IF args.interval_stats > 0 THEN 1 ELSE 0,
                   run_stats_command |-> IF args.interval_stats > 0 /\ args.command
                                         THEN 1 ELSE 0,
                   dbus_connect |-> 0]
    /\ mainloop = "running"
    /\ outbox = <<[name |-> "is_started", ecb |-> FALSE, inst |-> 1]>>
    /\ inbox = <<>>
    /\ launched = <<>>
    /\ stats_env = NoStatus

\* _async_handler as reply handler: callback(*args, name=name), the callback
\* being update_jack_status
HandleReply ==
    /\ mainloop = "running"
    /\ inbox # <<>>
    /\ Head(inbox).type = "reply"
    /\ UpdateJackStatus(Head(inbox).value, Head(inbox).name)
    /\ inbox' = Tail(inbox)
    /\ UNCHANGED <<args, jackctl, timeouts, mainloop, outbox, stats_env, service>>
    /\ UNCHANGED <<extractorVars, transportVars, mapperVars>>

\* handle_jackctl_signal
HandleSignal ==
    /\ mainloop = "running"
    /\ inbox # <<>>
    /\ Head(inbox).type = "signal"
    /\ IF Head(inbox).name = "ServerStarted"
       THEN UpdateJackStatus(1, "is_started")
       ELSE IF Head(inbox).name = "ServerStopped"
       THEN UpdateJackStatus(0, "is_started")
       ELSE UNCHANGED <<jack_status, launched>>
    /\ inbox' = Tail(inbox)
    /\ UNCHANGED <<args, jackctl, timeouts, mainloop, outbox, stats_env, service>>
    /\ UNCHANGED <<extractorVars, transportVars, mapperVars>>

\* The error handler of a call: handle_dbus_error when the call passed it
\* as error callback, else _async_handler, which logs the error and returns
HandleError ==
    /\ mainloop = "running"
    /\ inbox # <<>>
    /\ Head(inbox).type = "error"
    /\ IF Head(inbox).ecb /\ VanishHandled(Head(inbox).kind, jackctl)
       THEN /\ UpdateJackStatus(0, "is_started")
            /\ jackctl' = 0
            /\ IF args.interval_reconnect > 0
               THEN /\ timeouts' = [timeouts EXCEPT !.dbus_connect = @ + 1]
                    /\ mainloop' = mainloop
               ELSE /\ timeouts' = timeouts
                    /\ mainloop' = "quit"
       ELSE UNCHANGED <<jack_status, launched, jackctl, timeouts, mainloop>>
    /\ inbox' = Tail(inbox)
    /\ UNCHANGED <<args, outbox, stats_env, service>>
    /\ UNCHANGED <<extractorVars, transportVars, mapperVars>>

\* get_jack_stats, a periodic timeout: it returns True and stays scheduled.
\* Either the six calls are sent, or the connection is lost and the first
\* call raises DBusException: the monitor assumes that JACK is stopped.
GetJackStats ==
    /\ mainloop = "running"
    /\ timeouts.get_jack_stats > 0
    /\ IF jackctl # 0 /\ TruthyStatus(jack_status["is_started"])
       THEN /\ Len(outbox) + Len(StatsCalls) <= MaxOutbox
            /\ \/ /\ outbox' = outbox \o [i \in 1..Len(StatsCalls) |->
                                             CallTo(jackctl, StatsCalls[i])]
                  /\ UNCHANGED <<jack_status, launched>>
               \/ /\ outbox' = outbox
                  /\ UpdateJackStatus(0, "is_started")
       ELSE UNCHANGED <<outbox, jack_status, launched>>
    /\ UNCHANGED <<args, jackctl, timeouts, mainloop, inbox, stats_env, service>>
    /\ UNCHANGED <<extractorVars, transportVars, mapperVars>>

\* run_stats_command, a periodic timeout: the command is run with the status
\* in its environment, of which the model keeps the entry IS_STARTED
RunStatsCommand ==
    /\ mainloop = "running"
    /\ timeouts.run_stats_command > 0
    /\ IF args.command /\ args.interval_stats > 0
       THEN stats_env' = jack_status["is_started"]
       ELSE stats_env' = stats_env
    /\ UNCHANGED <<args, jackctl, jack_status, timeouts, mainloop, outbox, inbox,
                   launched, service>>
    /\ UNCHANGED <<extractorVars, transportVars, mapperVars>>

\* dbus_connect as the reconnection timeout.  JackCtlInterface(bus=...)
\* raises DBusException while the service is not up: the callback returns
\* True and stays scheduled.  Else the interface is made, the signal handler
\* added, the stats timeouts added, and the callback returns None: this
\* timeout is removed.
DbusConnect ==
    /\ mainloop = "running"
    /\ timeouts.dbus_connect > 0
    /\ IF service.up
       THEN /\ args.interval_stats > 0 => timeouts.get_jack_stats < MaxTimeouts
            /\ jackctl' = service.instance
            /\ service' = [service EXCEPT !.watched = TRUE]
            /\ timeouts' =
                  [get_jack_stats |-> timeouts.get_jack_stats +
                                      (IF args.interval_stats > 0 THEN 1 ELSE 0),
                   run_stats_command |-> timeouts.run_stats_command +
                                      (IF args.interval_stats > 0 /\ args.command
                                       THEN 1 ELSE 0),
                   dbus_connect |-> timeouts.dbus_connect - 1]
       ELSE UNCHANGED <<jackctl, service, timeouts>>
    /\ UNCHANGED <<args, jack_status, mainloop, outbox, inbox, launched, stats_env>>
    /\ UNCHANGED <<extractorVars, transportVars, mapperVars>>

(* The JACK D-Bus service and the bus *)

\* the service answers the oldest call: IsStarted with the server's state,
\* a stats call, while the server runs, with a value
ServiceAnswers ==
    /\ mainloop = "running"
    /\ outbox # <<>>
    /\ Len(inbox) < MaxQueue
    /\ service.up
    /\ Head(outbox).inst = service.instance
    /\ Head(outbox).name = "is_started" \/ service.started
    /\ inbox' = Append(inbox, Reply(Head(outbox),
                                    IF Head(outbox).name = "is_started"
                                    THEN (IF service.started THEN 1 ELSE 0)
                                    ELSE 1))
    /\ outbox' = Tail(outbox)
    /\ UNCHANGED <<args, jackctl, jack_status, timeouts, mainloop, launched,
                   stats_env, service>>
    /\ UNCHANGED <<extractorVars, transportVars, mapperVars>>

\* the service refuses a stats call while the server is not running
ServiceRefuses ==
    /\ mainloop = "running"
    /\ outbox # <<>>
    /\ Len(inbox) < MaxQueue
    /\ service.up
    /\ Head(outbox).inst = service.instance
    /\ Head(outbox).name # "is_started"
    /\ ~service.started
    /\ inbox' = Append(inbox, ErrorReply(Head(outbox), "ServerNotRunning"))
    /\ outbox' = Tail(outbox)
    /\ UNCHANGED <<args, jackctl, jack_status, timeouts, mainloop, launched,
                   stats_env, service>>
    /\ UNCHANGED <<extractorVars, transportVars, mapperVars>>

\* the bus answers a call to an incarnation that is gone
BusRejects ==
    /\ mainloop = "running"
    /\ outbox # <<>>
    /\ Len(inbox) < MaxQueue
    /\ ~(service.up /\ Head(outbox).inst = service.instance)
    /\ inbox' = Append(inbox, ErrorReply(Head(outbox), "ServiceUnknown"))
    /\ outbox' = Tail(outbox)
    /\ UNCHANGED <<args, jackctl, jack_status, timeouts, mainloop, launched,
                   stats_env, service>>
    /\ UNCHANGED <<extractorVars, transportVars, mapperVars>>

\* the JACK server starts or stops: the service emits ServerStarted or
\* ServerStopped, which reaches the monitor if a signal handler was added for
\* this incarnation
ServerChanges ==
    /\ mainloop = "running"
    /\ service.up
    /\ service.watched => Len(inbox) < MaxQueue
    /\ service' = [service EXCEPT !.started = ~service.started]
    /\ inbox' = IF service.watched
                THEN Append(inbox, Signal(IF service.started THEN "ServerStopped"
                                                             ELSE "ServerStarted"))
                ELSE inbox
    /\ UNCHANGED <<args, jackctl, jack_status, timeouts, mainloop, outbox, launched,
                   stats_env>>
    /\ UNCHANGED <<extractorVars, transportVars, mapperVars>>

\* the service leaves the bus, and the server with it
ServiceVanishes ==
    /\ mainloop = "running"
    /\ service.up
    /\ service' = [service EXCEPT !.up = FALSE, !.started = FALSE, !.watched = FALSE]
    /\ UNCHANGED <<args, jackctl, jack_status, timeouts, mainloop, outbox, inbox,
                   launched, stats_env>>
    /\ UNCHANGED <<extractorVars, transportVars, mapperVars>>

\* a new incarnation of the service takes the name (started by hand or
\* activated by the bus)
ServiceReturns ==
    /\ mainloop = "running"
    /\ ~service.up
    /\ service.instance < MaxInstances
    /\ service' = [up |-> TRUE, started |-> FALSE, instance |-> service.instance + 1,
                   watched |-> FALSE]
    /\ UNCHANGED <<args, jackctl, jack_status, timeouts, mainloop, outbox, inbox,
                   launched, stats_env>>
    /\ UNCHANGED <<extractorVars, transportVars, mapperVars>>

NextMonitor ==
    \/ HandleReply
    \/ HandleSignal
    \/ HandleError
    \/ GetJackStats
    \/ RunStatsCommand
    \/ DbusConnect
    \/ ServiceAnswers
    \/ ServiceRefuses
    \/ BusRejects
    \/ ServerChanges
    \/ ServiceVanishes
    \/ ServiceReturns

SpecMonitor == InitMonitor /\ [][NextMonitor]_vars

----------------------------------------------------------------------------
(* Properties of the JACK monitor (SpecMonitor) *)

\* C23: the command is launched with start or stop only for a change of the
\* started status, so two consecutive launches never carry the same
\* argument.
C23_LaunchOnlyOnChange ==
    Len(launched) = 2 => launched[1] # launched[2]

\* C28: with a stats interval > 0, at most one get_jack_stats timeout and at
\* most one run_stats_command timeout are active at any time, whatever the
\* number of disappearances and reconnections.
C28_OneTimeoutEach ==
    args.interval_stats > 0 =>
        /\ timeouts.get_jack_stats <= 1
        /\ timeouts.run_stats_command <= 1

\* the error at the head of the inbox says that the service vanished, and
\* its call had handle_dbus_error as error callback
VanishErrorNext ==
    /\ inbox # <<>>
    /\ Head(inbox).type = "error"
    /\ Head(inbox).ecb
    /\ Head(inbox).kind = "ServiceUnknown"

----------------------------------------------------------------------------
(* URIDMapper: src/lv2/apply_midi.py.  uri_to_id and id_to_uri are handed   *)
(* to the plugin as C callbacks, which the plugin may call from any of its  *)
(* threads.  A thread can be preempted between any two statements; the     *)
(* lookup in _map happens before the lock is taken.                        *)

InitMapper ==
    /\ ExtractorIdle
    /\ TransportIdle
    /\ MonitorIdle
    /\ MapperIdle

\* the calls begun so far: those that returned and those in progress
CallsBegun == Len(results) + Cardinality({t \in Threads : thread[t].pc # "idle"})

\* a thread calls uri_to_id(handle, uri)
Call(t) ==
    /\ thread[t].pc = "idle"
    /\ CallsBegun < MaxCalls
    /\ \E u \in URIs :
          thread' = [thread EXCEPT ![t] = [pc |-> "lookup", uri |-> u, urid |-> NoId]]
    /\ UNCHANGED <<next_id, map, rmap, lock, results>>
    /\ UNCHANGED <<extractorVars, transportVars, monitorVars>>

\* try: urid = self._map[uri]; except KeyError: go on to the with statement
Lookup(t) ==
    /\ thread[t].pc = "lookup"
    /\ thread' = IF map[thread[t].uri] # NoId
                 THEN [thread EXCEPT ![t].urid = map[thread[t].uri], ![t].pc = "return"]
                 ELSE [thread EXCEPT ![t].pc = "acquire"]
    /\ UNCHANGED <<next_id, map, rmap, lock, results>>
    /\ UNCHANGED <<extractorVars, transportVars, monitorVars>>

\* with self._lock: the thread waits until the lock is free
Acquire(t) ==
    /\ thread[t].pc = "acquire"
    /\ lock = 0
    /\ lock' = t
    /\ thread' = [thread EXCEPT ![t].pc = "take"]
    /\ UNCHANGED <<next_id, map, rmap, results>>
    /\ UNCHANGED <<extractorVars, transportVars, monitorVars>>

\* urid = self._next_id
TakeId(t) ==
    /\ thread[t].pc = "take"
    /\ thread' = [thread EXCEPT ![t].urid = next_id, ![t].pc = "setmap"]
    /\ UNCHANGED <<next_id, map, rmap, lock, results>>
    /\ UNCHANGED <<extractorVars, transportVars, monitorVars>>

\* self._map[uri] = urid
SetMap(t) ==
    /\ thread[t].pc = "setmap"
    /\ map' = [map EXCEPT ![thread[t].uri] = thread[t].urid]
    /\ thread' = [thread EXCEPT ![t].pc = "setrmap"]
    /\ UNCHANGED <<next_id, rmap, lock, results>>
    /\ UNCHANGED <<extractorVars, transportVars, monitorVars>>

\* self._rmap[urid] = uri
SetRmap(t) ==
    /\ thread[t].pc = "setrmap"
    /\ rmap' = [rmap EXCEPT ![thread[t].urid] = thread[t].uri]
    /\ thread' = [thread EXCEPT ![t].pc = "increment"]
    /\ UNCHANGED <<next_id, map, lock, results>>
    /\ UNCHANGED <<extractorVars, transportVars, monitorVars>>

\* self._next_id += 1, and the end of the with statement: the lock is freed
Increment(t) ==
    /\ thread[t].pc = "increment"
    /\ next_id' = next_id + 1
    /\ lock' = 0
    /\ thread' = [thread EXCEPT ![t].pc = "return"]
    /\ UNCHANGED <<map, rmap, results>>
    /\ UNCHANGED <<extractorVars, transportVars, monitorVars>>

\* return urid
Return(t) ==
    /\ thread[t].pc = "return"
    /\ results' = Append(results, <<thread[t].uri, thread[t].urid>>)
    /\ thread' = [thread EXCEPT ![t] = IdleThread]
    /\ UNCHANGED <<next_id, map, rmap, lock>>
    /\ UNCHANGED <<extractorVars, transportVars, monitorVars>>

\* id_to_uri(handle, urid): self._rmap[urid], 0 on KeyError
IdToUri(r, urid) == IF urid \in DOMAIN r /\ r[urid] # NoUri THEN r[urid] ELSE "0"

NextMapper ==
    \E t \in Threads :
        \/ Call(t)
        \/ Lookup(t)
        \/ Acquire(t)
        \/ TakeId(t)
        \/ SetMap(t)
        \/ SetRmap(t)
        \/ Increment(t)
        \/ Return(t)

SpecMapper == InitMapper /\ [][NextMapper]_vars

----------------------------------------------------------------------------
(* Properties of the URID mapper (SpecMapper) *)

\* C27: for any interleaving of uri_to_id calls from several threads, two
\* calls with the same URI return the same id, calls with distinct URIs
\* return distinct ids, and id_to_uri gives back the URI of every id
\* returned.
C27_ConsistentIds ==
    \A i, j \in 1..Len(results) :
        /\ (results[i][1] = results[j][1]) <=> (results[i][2] = results[j][2])
        /\ IdToUri(rmap, results[i][2]) = results[i][1]

----------------------------------------------------------------------------
(* Properties of the normalisation of one port, continued (SpecNorm) *)

\* both bounds are declared: the declared minimum, maximum and default are
\* read (line 204)
BoundsDeclared == port.minimum # None /\ port.maximum # None

\* a number in tenths without its fractional part, toward zero
TowardZero(v) == IF v >= 0 THEN v - (v % 10) ELSE v + ((-v) % 10)

\* the three cases of the taxonomy that carry a diagnostic
FloatWithFraction(x) == IsInt /\ x.rep = "float" /\ x.v % 10 # 0

FloatWithoutFraction(x) == IsInt /\ x.rep = "float" /\ x.v % 10 = 0

IntegerOnFloatPort(x) == ~IsInt /\ x.rep = "int"

\* the value the taxonomy gives for a declared value
TaxonomyValue(x) == IF IsInt /\ x.rep = "float" THEN TowardZero(x.v) ELSE x.v

HasDiagnostic(list, kind, what, label) ==
    \E i \in 1..Len(list) :
        list[i].kind = kind /\ list[i].what = what /\ list[i].label = label

\* The diagnostics recorded about the declared values xs, which are all the
\* values named what / label, are those of the taxonomy: each of the three
\* messages is there iff one of the values is in its case, the error is never
\* a warning and the warnings are never errors.
TaxonomyDiagnostics(xs, what, label) ==
    /\ HasDiagnostic(res.ctx.errors, "integer property but value has non-zero decimals",
                     what, label)
          <=> \E x \in xs : FloatWithFraction(x)
    /\ HasDiagnostic(res.ctx.warnings, "integer property but value is float", what, label)
          <=> \E x \in xs : FloatWithoutFraction(x)
    /\ HasDiagnostic(res.ctx.warnings, "value is an integer", what, label)
          <=> \E x \in xs : IntegerOnFloatPort(x)
    /\ ~HasDiagnostic(res.ctx.warnings, "integer property but value has non-zero decimals",
                      what, label)
    /\ ~HasDiagnostic(res.ctx.errors, "integer property but value is float", what, label)
    /\ ~HasDiagnostic(res.ctx.errors, "value is an integer", what, label)

\* the declared scale points whose value is read: those with label and value
ReadPoints ==
    {i \in 1..Len(port.scalePoints) :
        port.scalePoints[i].label # NoStr /\ port.scalePoints[i].value # None}

ReadValues(label) ==
    {port.scalePoints[i].value : i \in {j \in ReadPoints : port.scalePoints[j].label = label}}

\* C24: the coercion of minimum, maximum, default and scale point values
\* follows one taxonomy.  On an integer port an integer value is taken
\* unchanged with no diagnostic, a float value without fractional part
\* becomes the equal integer with a warning, a float value with fractional
\* part is truncated toward zero with an error; on a float port a float
\* value is taken with no diagnostic and an integer value becomes the equal
\* float with a warning.  (The maximum and the default are compared where
\* the later repairs of the range have not replaced them; a scale point
\* where it is within the bounds.)
C24_CoercionTaxonomy ==
    Normalized =>
        /\ BoundsDeclared =>
              /\ TaxonomyDiagnostics({port.minimum}, "minimum", "")
              /\ TaxonomyDiagnostics({port.maximum}, "maximum", "")
              /\ TaxonomyDiagnostics({port.default} \ {None}, "default", "")
              /\ res.info.ranges.minimum = TaxonomyValue(port.minimum)
              /\ ~HasError(res.ctx.errors, "minimum value is equal or higher than its maximum")
                    => res.info.ranges.maximum = TaxonomyValue(port.maximum)
              /\ (port.default # None
                    /\ ~HasError(res.ctx.errors, "default value is out of bounds"))
                    => res.info.ranges.default = TaxonomyValue(port.default)
        /\ \A label \in {"a", "b"} :
              TaxonomyDiagnostics(ReadValues(label), "scalepoint", label)
        /\ \A i \in ReadPoints :
              ScalePointInBounds(res.info.ranges.minimum,
                                 TaxonomyValue(port.scalePoints[i].value),
                                 res.info.ranges.maximum)
              => \E j \in 1..Len(res.info.scalePoints) :
                    res.info.scalePoints[j].value =
                        [rep |-> IF IsInt THEN "int" ELSE "float",
                         v |-> TaxonomyValue(port.scalePoints[i].value)]

\* An integer port declaring minimum -1.5, maximum 1.0 and default 1: the
\* minimum is truncated to -1 with an error, the maximum becomes 1 with a
\* warning, the default is taken without diagnostic
C24_Witness ==
    /\ pc = "normalized"
    /\ IsInt
    /\ port.minimum = FloatNode(-15)
    /\ port.maximum = FloatNode(10)
    /\ port.default = IntNode(1)
    /\ res.info.ranges = [minimum |-> -10, maximum |-> 10, default |-> 10]
    /\ HasDiagnostic(res.ctx.errors, "integer property but value has non-zero decimals",
                     "minimum", "")
    /\ HasDiagnostic(res.ctx.warnings, "integer property but value is float", "maximum", "")

HasMissingDefaultError == HasError(res.ctx.errors, "is missing default value")

\* C25 as stated: a Control or CV port declaring no default gets the returned
\* minimum as default, and the missing default error iff it is an Input
\* port, also when the bounds were not declared and are synthesized.
C25_DefaultIsMinimum ==
    (Normalized /\ port.default = None) =>
        /\ res.info.ranges.default = res.info.ranges.minimum
        /\ HasMissingDefaultError <=> "Input" \in port.types

\* C25 amended: with both bounds declared, a port declaring no default gets
\* the returned minimum as default, and the missing default error iff it is
\* an Input port.  With a bound not declared the range is synthesized: the
\* default is 0, which is the synthesized minimum except on a CV port
\* without the integer flag (minimum -1.0), and no missing default error is
\* recorded, Input port or not.
C25_DefaultIsMinimumWhenBounded ==
    (Normalized /\ port.default = None) =>
        IF BoundsDeclared
        THEN /\ res.info.ranges.default = res.info.ranges.minimum
             /\ HasMissingDefaultError <=> "Input" \in port.types
        ELSE /\ res.info.ranges.default = 0
             /\ res.info.ranges.minimum =
                   (IF "CV" \in port.types /\ ~IsInt THEN -10 ELSE 0)
             /\ ~HasMissingDefaultError

\* An Input port declaring the bounds 0.5 and 1.5 and no default
C25_Witness ==
    /\ pc = "normalized"
    /\ "Input" \in port.types
    /\ port.minimum = FloatNode(5)
    /\ port.maximum = FloatNode(15)
    /\ port.default = None
    /\ ~IsInt
    /\ res.info.ranges = [minimum |-> 5, maximum |-> 15, default |-> 5]
    /\ HasMissingDefaultError

----------------------------------------------------------------------------
(* Properties of the description of one plugin, continued (SpecPlugin) *)

\* the URIs of a relation of the plugin
RelationUris(relation) == {relation[i].uri : i \in 1..Len(relation)}

\* the listed properties that are declared as a Parameter, and those that
\* are not
ParameterUris ==
    {f.uri : f \in {g \in RelationFacts :
                       g.defined /\ g.uri \in RelationUris(plugin.readable)
                                               \cup RelationUris(plugin.writable)}}

UndeclaredUris ==
    {f.uri : f \in {g \in RelationFacts :
                       ~g.defined /\ g.uri \in RelationUris(plugin.readable)
                                                \cup RelationUris(plugin.writable)}}

\* C26: the properties mapping has exactly one entry per listed URI that is
\* declared as a Parameter, writable iff the URI is in the writable
\* relation (alone or together with readable); a listed URI not declared as
\* a Parameter has no entry, and an error is recorded for it.
C26_PropertiesMapping ==
    pc = "described" =>
        /\ DOMAIN pinfo.info.properties = ParameterUris
        /\ \A u \in ParameterUris :
              /\ pinfo.info.properties[u].uri = u
              /\ pinfo.info.properties[u].writable
                    <=> u \in RelationUris(plugin.writable)
        /\ \A u \in UndeclaredUris :
              \E i \in 1..Len(pinfo.ctx.errors) :
                  /\ pinfo.ctx.errors[i].kind = "Could not find defintion of property"
                  /\ pinfo.ctx.errors[i].label = u
        /\ \A i \in 1..Len(pinfo.ctx.errors) :
              pinfo.ctx.errors[i].kind = "Could not find defintion of property"
                  => pinfo.ctx.errors[i].label \in UndeclaredUris

\* urn:q readable and writable, urn:s readable only, urn:r, which has no
\* definition, writable
C26_Witness ==
    /\ pc = "described"
    /\ RelationUris(plugin.readable) = {"urn:q", "urn:s"}
    /\ RelationUris(plugin.writable) = {"urn:q", "urn:r"}
    /\ DOMAIN pinfo.info.properties = {"urn:q", "urn:s"}
    /\ pinfo.info.properties["urn:q"].writable
    /\ ~pinfo.info.properties["urn:s"].writable
    /\ Len(pinfo.ctx.errors) = 1

----------------------------------------------------------------------------
(* Properties of the bulk run, continued (SpecBulk) *)

TextIn(texts, text) == \E i \in 1..Len(texts) : texts[i] = text

\* the names and symbols of the ports of the bulk run's plugins
BulkPortWords ==
    UNION {{pl.ports[i].name : i \in 1..Len(pl.ports)}
               \cup {pl.ports[i].symbol : i \in 1..Len(pl.ports)} : pl \in BulkPlugins}

\* a port of the plugin, before port j, uses the word as name or symbol
UsedBefore(pl, j, word) ==
    \E i \in 1..(j - 1) : pl.ports[i].name = word \/ pl.ports[i].symbol = word

\* C30: the sets of seen port names and symbols are reset for each plugin of
\* a bulk run: a 'not unique' error or warning returned for a plugin names a
\* symbol or name that a port of the same plugin repeats from an earlier port
\* of that plugin, never one that only a port of an earlier plugin used.
C30_SeenSetsPerPlugin ==
    \A k \in 1..Len(infos) :
        \A word \in BulkPortWords :
            /\ TextIn(infos[k].errors,
                      Format(Msg("port symbol is not unique", word, "", "", <<>>)))
                  => \E j \in 1..Len(plugins[k].ports) :
                        /\ plugins[k].ports[j].symbol = word
                        /\ UsedBefore(plugins[k], j, word)
            /\ TextIn(infos[k].warnings,
                      Format(Msg("port name is not unique", word, "", "", <<>>)))
                  => \E j \in 1..Len(plugins[k].ports) :
                        /\ plugins[k].ports[j].name = word
                        /\ UsedBefore(plugins[k], j, word)

\* urn:c, whose two ports share the symbol a, then urn:g, whose one port has
\* a as name and symbol: the error is returned for urn:c, nothing for urn:g
C30_Witness ==
    /\ pc = "returned"
    /\ Len(infos) = 2
    /\ plugins[1].uri = "urn:c"
    /\ plugins[2].uri = "urn:g"
    /\ TextIn(infos[1].errors, Format(Msg("port symbol is not unique", "a", "", "", <<>>)))
    /\ infos[2].errors = <<>>
    /\ infos[2].warnings = <<>>

====
